---- MODULE Spec2Model ----
(***************************************************************************)
(* A model of the three command-line tools of the workflow-automation      *)
(* repository:                                                             *)
(*   - the configuration validator   (scripts/config-validator.ts),        *)
(*   - the update propagator         (scripts/update-propagation.ts,       *)
(*                                    class UpdatePropagator),             *)
(*   - the version checker           (scripts/update-propagation.ts,       *)
(*                                    class VersionChecker).               *)
(*                                                                         *)
(* Conventions.                                                            *)
(*   - A JavaScript string whose characters matter (file contents, version *)
(*     strings, exclusion patterns, URLs) is a sequence of one-token       *)
(*     strings; the token "R" stands for the literal                       *)
(*     signinwithethereum/workflow-automation.                             *)
(*   - An optional JSON property is a set: {} when the property is absent  *)
(*     (undefined), {v} when it is present with value v.                   *)
(*   - A report message is a record [text, args]: the fixed text of the    *)
(*     template and the interpolated strings.                              *)
(*   - The remote hosting API and the schema library (ajv) are outside the *)
(*     repository: their answers are inputs, drawn from small sets.        *)
(***************************************************************************)
EXTENDS Integers, Sequences, FiniteSets, TLC

VARIABLES
    \* ---- what a process is started with
    setup,         \* the state of its credentials and of the file it loads first
    \* ---- validateConfig as a function of one file (SpecValidate)
    vInput,        \* the file handed to validateConfig
    vResult,       \* <<>> before the call, <<result>> after it
    \* ---- getCentralVersion as a function of the remote answers (SpecCentral)
    gcvInput,      \* the answers of its four awaits
    gcvResult,     \* <<>> before the call, <<what it returned or raised>> after
    \* ---- checkRepositoryVersion as a function of the remote answers (SpecCheckOne)
    coInput,       \* the target and the answers of its three awaits
    coResult,      \* <<>> before the call, <<the RepositoryInfo returned>> after
    \* ---- a validator process: main and ConfigValidator.run (SpecValidatorRun)
    vpc,           \* position in main/run
    configPaths,   \* this.configPaths
    configFiles,   \* run: const configFiles = this.findConfigFiles()
    results,       \* run: const results: ValidationResult[]
    validFiles,    \* run: let validFiles
    invalidFiles,  \* run: let invalidFiles
    vReport,       \* <<>> or <<the ValidationReport returned by run>>
    vWritten,      \* whether ./validation-report.json was written
    vExit,         \* the exit code of the process, -1 while it runs
    \* ---- a propagator process: main and UpdatePropagator.run (SpecPropagator)
    ppc,           \* position in main/run/updateRepository/needsUpdate
    pConfig,       \* this.config: [repositories, workflowVersion, dryRun]
    pIdx,          \* index in config.repositories of the target in progress
    remote,        \* the hosted repository of the target in progress
    pLocal,        \* locals of the calls in progress for that target
    writes,        \* the mutating remote calls issued for that target, in order
    answers,       \* every remote call made for that target with its answer, in order
    pResults,      \* run: const results = {success, skipped, failed}
    tallied,       \* which counter the target in progress was added to
    pExit,         \* the exit code of the process, -1 while it runs
    \* ---- a version-checker process: main and VersionChecker.run (SpecChecker)
    cpc,           \* position in main/run
    cList,         \* the `repositories` array of the repository-list file
    cRepositories, \* this.repositories
    centralVersion,\* {} or {the value returned by getCentralVersion}
    cInfos,        \* run: const repositories: RepositoryInfo[]
    cChecked,      \* the entries as checkRepositoryVersion returned them
    cReport,       \* <<>> or <<the VersionReport returned by run>>
    cExit          \* the exit code of the process, -1 while it runs

checkerVars == <<cpc, cList, cRepositories, centralVersion, cInfos, cChecked,
                 cReport, cExit>>
propagatorVars == <<ppc, pConfig, pIdx, remote, pLocal, writes, answers,
                    pResults, tallied, pExit>>
validatorVars == <<vpc, configPaths, configFiles, results, validFiles,
                   invalidFiles, vReport, vWritten, vExit>>
validateVars == <<vInput, vResult>>
centralVars == <<gcvInput, gcvResult>>
checkOneVars == <<coInput, coResult>>

vars == <<setup, validateVars, centralVars, checkOneVars, validatorVars, propagatorVars, checkerVars>>

\* What an action of one tool leaves alone: the state of the other tools
notValidate == <<setup, centralVars, checkOneVars, validatorVars, propagatorVars, checkerVars>>
notCentral == <<setup, validateVars, checkOneVars, validatorVars, propagatorVars, checkerVars>>
notCheckOne == <<setup, validateVars, centralVars, validatorVars, propagatorVars, checkerVars>>
notValidator == <<setup, validateVars, centralVars, checkOneVars, propagatorVars, checkerVars>>
notPropagator == <<setup, validateVars, centralVars, checkOneVars, validatorVars, checkerVars>>
notChecker == <<setup, validateVars, centralVars, checkOneVars, validatorVars, propagatorVars>>

(***************************************************************************)
(* Generic helpers on sequences.                                           *)
(***************************************************************************)
Range(s) == {s[i] : i \in 1..Len(s)}

RECURSIVE Concat(_)
Concat(ss) == IF ss = <<>> THEN <<>> ELSE Head(ss) \o Concat(Tail(ss))

\* A faulty prefix test that compares the first part only
StartsWithScheme(s, p) ==
    /\ Len(p) <= Len(s)
    /\ SubSeq(s, 1, 1) = SubSeq(p, 1, 1)

\* String.prototype.startsWith
StartsWith(s, p) ==
    /\ Len(p) <= Len(s)
    /\ SubSeq(s, 1, Len(p)) = p

\* String.prototype.includes: p occurs in s as a contiguous substring
Includes(s, p) ==
    \E i \in 0..(Len(s) - Len(p)) : SubSeq(s, i + 1, i + Len(p)) = p

\* String.prototype.replace(p, '') with a one-character string p:
\* only the FIRST occurrence is removed
ReplaceFirst(s, c) ==
    IF \E i \in 1..Len(s) : s[i] = c
    THEN LET k == CHOOSE i \in 1..Len(s) :
                      s[i] = c /\ \A j \in 1..(i - 1) : s[j] # c
         IN  SubSeq(s, 1, k - 1) \o SubSeq(s, k + 1, Len(s))
    ELSE s

Count(s, x) == Cardinality({i \in 1..Len(s) : s[i] = x})

Msg(text, args) == [text |-> text, args |-> args]

\* <<m>> when b holds, nothing otherwise: an `if (b) list.push(m)`
PushIf(b, m) == IF b THEN <<m>> ELSE <<>>

(***************************************************************************)
(* The configuration validator: scripts/config-validator.ts                *)
(***************************************************************************)

\* Thresholds of the best-practice warnings
MinCoverageWarn == 50
MaxComplexityWarn == 20
MaxFunctionLengthWarn == 100
MaxFilePatternsWarn == 20
MaxResponseLengthWarn == 5000

SlackPrefix == <<"https://", "hooks.slack.com", "/">>
DiscordPrefix == <<"https://", "discord.com", "/api/webhooks/">>

\* formatAjvError: one message per schema violation.  An ajv error is
\* [keyword, instancePath, params]; an empty instancePath prints as 'root'.
formatAjvError(error) ==
    LET instancePath == IF error.instancePath = <<>> THEN <<"root">>
                        ELSE error.instancePath
    IN  CASE error.keyword = "required" ->
               Msg("Missing required property: ", error.params)
          [] error.keyword = "type" ->
               Msg("Property should be", <<instancePath>> \o error.params)
          [] error.keyword = "enum" ->
               Msg("Property should be one of: ", <<instancePath>> \o error.params)
          [] error.keyword = "minimum" ->
               Msg("Property should be >= ", <<instancePath>> \o error.params)
          [] error.keyword = "maximum" ->
               Msg("Property should be <= ", <<instancePath>> \o error.params)
          [] OTHER ->
               Msg(": ", <<instancePath>> \o error.params)

\* Reading a property of `null` raises a TypeError; every other document of
\* the model is an object whose properties have the types the code expects.
ThrowsOnAccess(config) == config.kind = "null"

\* A faulty list of disabled rules that forgets the filter
DisabledRulesUnfiltered(rules) ==
    [i \in 1..Len(rules) |-> <<rules[i][1]>>]

\* The names of the security rules set to false, in entry order
DisabledRules(rules) ==
    LET disabled == SelectSeq(rules, LAMBDA e : e[2] = FALSE)
    IN  [i \in 1..Len(disabled) |-> <<disabled[i][1]>>]

DisabledRulesOf(security_rules) ==
    IF security_rules = {} THEN <<>>
    ELSE DisabledRules(CHOOSE rules \in security_rules : TRUE)

\* addCustomWarnings: the warnings it pushes, in order
addCustomWarnings(config) ==
       PushIf(\E c \in config.min_test_coverage : c < MinCoverageWarn,
              Msg("Low test coverage requirement (< 50%) may indicate insufficient testing standards", <<>>))
    \o PushIf(\E c \in config.max_complexity : c > MaxComplexityWarn,
              Msg("High complexity threshold (> 20) may allow overly complex code", <<>>))
    \o PushIf(\E c \in config.max_function_length : c > MaxFunctionLengthWarn,
              Msg("High function length limit (> 100) may allow overly long functions", <<>>))
    \o PushIf(\E rules \in config.security_rules :
                  \E i \in 1..Len(rules) : rules[i][2] = FALSE,
              Msg("Disabled security checks: ", DisabledRulesOf(config.security_rules)))
    \o PushIf(\E fps \in config.file_patterns : Len(fps) > MaxFilePatternsWarn,
              Msg("Large number of file exclusion patterns may hide important files from review", <<>>))
    \o PushIf(\E c \in config.max_response_length : c > MaxResponseLengthWarn,
              Msg("Very high response length limit may lead to overly verbose responses", <<>>))
    \o PushIf(\E m \in config.model : m # <<>> /\ Includes(m, <<"haiku">>),
              Msg("Using Haiku model may provide less comprehensive reviews than Sonnet", <<>>))
    \o PushIf(FALSE \in config.strict_mode,
              Msg("TypeScript strict mode disabled - may miss type-related issues", <<>>))
    \o PushIf(FALSE \in config.check_type_hints,
              Msg("Python type hint checking disabled - may miss type-related issues", <<>>))

\* The redundancy warnings of performSemanticValidation: the nested loop over
\* (file pattern, directory pattern), in iteration order
RedundantExclusions(filePatterns, dirPatterns) ==
    Concat([i \in 1..Len(filePatterns) |->
        Concat([j \in 1..Len(dirPatterns) |->
            PushIf(Includes(filePatterns[i], ReplaceFirst(dirPatterns[j], "/")),
                   Msg("Potential redundant exclusion: file pattern may be covered by directory pattern",
                       <<filePatterns[i], dirPatterns[j]>>))])])

\* performSemanticValidation: the errors it pushes, in order
SemanticErrors(config) ==
       PushIf(FALSE \in config.check_tests
                /\ \E c \in config.min_test_coverage : c > 0,
              Msg("Inconsistent configuration: test coverage specified but test checking disabled", <<>>))
    \o PushIf(FALSE \in config.check_documentation
                /\ (TRUE \in config.require_function_docs
                    \/ TRUE \in config.require_class_docs),
              Msg("Inconsistent configuration: documentation requirements specified but documentation checking disabled", <<>>))
    \o PushIf(\E u \in config.slack_webhook : u # <<>> /\ ~StartsWith(u, SlackPrefix),
              Msg("Invalid Slack webhook URL format", <<>>))
    \o PushIf(\E u \in config.discord_webhook : u # <<>> /\ ~StartsWith(u, DiscordPrefix),
              Msg("Invalid Discord webhook URL format", <<>>))

\* performSemanticValidation: the warnings it pushes
SemanticWarnings(config) ==
    IF config.file_patterns # {} /\ config.directory_patterns # {}
    THEN RedundantExclusions(CHOOSE f \in config.file_patterns : TRUE,
                             CHOOSE d \in config.directory_patterns : TRUE)
    ELSE <<>>

\* performSemanticValidation(config, result): result after the call
performSemanticValidation(config, result) ==
    [result EXCEPT !.errors = @ \o SemanticErrors(config),
                   !.warnings = @ \o SemanticWarnings(config)]

TypeErrorMsg == Msg("Validation error: ", <<<<"TypeError">>>>)

\* validateConfig(filePath): the ValidationResult it returns.  `file` is what
\* the file system holds at filePath: [path, exists, parses, config,
\* schemaErrors], schemaErrors being ajv's validate.errors for the document
\* (empty exactly when validate(config) is true).
validateConfig(file) ==
    LET result == [file |-> file.path, valid |-> FALSE,
                   errors |-> <<>>, warnings |-> <<>>]
        config == file.config
        isValid == file.schemaErrors = <<>>
    IN  IF ~file.exists
        THEN [result EXCEPT !.errors = <<Msg("Configuration file not found", <<>>)>>]
        ELSE IF ~file.parses
        THEN [result EXCEPT !.errors = <<Msg("JSON parsing error: ", <<<<"SyntaxError">>>>)>>]
        ELSE
          LET afterSchema ==
                IF isValid
                THEN [result EXCEPT !.valid = TRUE]
                ELSE [result EXCEPT
                        !.valid = FALSE,
                        !.errors = [i \in 1..Len(file.schemaErrors) |->
                                      formatAjvError(file.schemaErrors[i])]]
          IN  IF ThrowsOnAccess(config)
              \* addCustomWarnings or performSemanticValidation raises at its
              \* first property access; the outer catch records it
              THEN [afterSchema EXCEPT !.errors = @ \o <<TypeErrorMsg>>]
              ELSE performSemanticValidation(config,
                     IF isValid
                     THEN [afterSchema EXCEPT !.warnings = addCustomWarnings(config)]
                     ELSE afterSchema)

(***************************************************************************)
(* Inputs of validateConfig: configuration documents and files.            *)
(***************************************************************************)
OptBool == {{}, {TRUE}, {FALSE}}

BaseConfig ==
    [kind |-> "object",
     check_tests |-> {}, min_test_coverage |-> {}, max_complexity |-> {},
     max_function_length |-> {}, check_documentation |-> {},
     require_function_docs |-> {}, require_class_docs |-> {},
     security_rules |-> {}, file_patterns |-> {}, directory_patterns |-> {},
     max_response_length |-> {}, model |-> {}, strict_mode |-> {},
     check_type_hints |-> {}, slack_webhook |-> {}, discord_webhook |-> {}]

NullConfig == [BaseConfig EXCEPT !.kind = "null"]

\* More file patterns than the warning threshold, all distinct from the
\* directory patterns below
ManyPatterns == [i \in 1..(MaxFilePatternsWarn + 1) |-> <<"*", ".", "l", "o", "g">>]

FilePatternChoices ==
    {{}, {<<>>},
     {<<<<"d", "i", "s", "t", "/", "*">>>>},
     {<<<<"d", "i", "s", "t", "/", "*">>, <<"s", "r", "c", "/", "a">>>>},
     {<<<<"d", "i", "s", "t", "/", "*">>, <<"d", "i", "s", "t", "/", "*">>>>},
     {<<<<"a", "b", ".", "t", "s">>, <<"a", "/", "b", "/", "*">>>>},
     {ManyPatterns}}

DirPatternChoices ==
    {{}, {<<<<"d", "i", "s", "t", "/">>>>},
     {<<<<"d", "i", "s", "t", "/">>, <<"s", "r", "c", "/">>>>},
     {<<<<"a", "/", "b", "/">>>>}}

SecurityRuleChoices ==
    {{},
     {<<<<"check_sql_injection", FALSE>>, <<"check_xss", TRUE>>>>},
     {<<<<"check_sql_injection", FALSE>>, <<"check_xss", FALSE>>>>},
     {<<<<"check_sql_injection", TRUE>>, <<"check_xss", TRUE>>>>}}

SlackChoices ==
    {{}, {<<>>}, {SlackPrefix \o <<"T0/B0">>},
     {<<"https://", "example.com", "/">>}}

DiscordChoices ==
    {{}, {DiscordPrefix \o <<"1/x">>}, {<<"http://", "discord.com", "/api/webhooks/">>}}

\* Documents that exercise the semantic consistency checks
SemanticConfigs ==
    {[BaseConfig EXCEPT !.check_tests = ct, !.min_test_coverage = cov,
                        !.check_documentation = cd,
                        !.require_function_docs = rf, !.require_class_docs = rc,
                        !.slack_webhook = sl, !.discord_webhook = di] :
        ct \in OptBool, cov \in {{}, {0}, {80}}, cd \in OptBool,
        rf \in OptBool, rc \in {{}, {TRUE}},
        sl \in SlackChoices, di \in DiscordChoices}

\* Documents that exercise the best-practice warnings and the exclusion lists
WarningConfigs ==
    {[BaseConfig EXCEPT !.min_test_coverage = cov, !.max_complexity = cx,
                        !.max_function_length = fl, !.max_response_length = fl2,
                        !.security_rules = sr, !.file_patterns = fp,
                        !.directory_patterns = dp, !.model = mo,
                        !.strict_mode = sm, !.check_type_hints = sm2] :
        cov \in {{40}, {80}}, cx \in {{}, {25}},
        fl \in {{}, {100}, {150}}, fl2 \in {{}, {6000}},
        sr \in SecurityRuleChoices, fp \in FilePatternChoices,
        dp \in DirPatternChoices,
        mo \in {{}, {<<"claude-3-", "haiku">>}, {<<"claude-3-", "sonnet">>}},
        sm \in {{}, {FALSE}}, sm2 \in {{TRUE}, {FALSE}}}

\* What ajv reports for a document: nothing (the document satisfies the
\* schema) or a list of violations.  With allErrors the same `required`
\* keyword can be reported for two different objects of one document.
SchemaOutcomes ==
    {<<>>,
     <<[keyword |-> "required", instancePath |-> <<>>, params |-> <<<<"model">>>>]>>,
     <<[keyword |-> "type", instancePath |-> <<"/review_rules/min_test_coverage">>,
        params |-> <<<<"number">>>>],
       [keyword |-> "additionalProperties", instancePath |-> <<>>,
        params |-> <<<<"must NOT have additional properties">>>>]>>,
     <<[keyword |-> "required", instancePath |-> <<"/language_specific/typescript">>,
        params |-> <<<<"enabled">>>>],
       [keyword |-> "required", instancePath |-> <<"/language_specific/python">>,
        params |-> <<<<"enabled">>>>]>>}

\* A schema that declares an object shape rejects `null`
NullSchemaOutcome ==
    <<[keyword |-> "type", instancePath |-> <<>>, params |-> <<<<"object">>>>]>>

JsonFile(path, config, schemaErrors) ==
    [path |-> path, exists |-> TRUE, parses |-> TRUE,
     config |-> config, schemaErrors |-> schemaErrors]

MissingFile(path) ==
    [path |-> path, exists |-> FALSE, parses |-> FALSE,
     config |-> BaseConfig, schemaErrors |-> <<>>]

BrokenFile(path) ==
    [path |-> path, exists |-> TRUE, parses |-> FALSE,
     config |-> BaseConfig, schemaErrors |-> <<>>]

ConfigFiles ==
    {MissingFile(<<"c.json">>), BrokenFile(<<"c.json">>),
     JsonFile(<<"c.json">>, NullConfig, NullSchemaOutcome)}
    \cup {JsonFile(<<"c.json">>, c, e) :
             c \in SemanticConfigs \cup WarningConfigs, e \in SchemaOutcomes}

(***************************************************************************)
(* validateConfig applied to one file.                                     *)
(***************************************************************************)
ValidateIdle == vInput = <<>> /\ vResult = <<>>

ValidateConfig ==
    /\ vInput # <<>>
    /\ vResult = <<>>
    /\ vResult' = <<validateConfig(vInput)>>
    /\ UNCHANGED vInput
    /\ UNCHANGED notValidate

(***************************************************************************)
(* The validator process: main, the constructor and run.                   *)
(***************************************************************************)
MaxPaths == 2

\* path.extname and path.join on paths written as sequences of
\* <<stem, extension>> names
extname(path) == path[Len(path)][2]
join(dir, name) == dir \o <<name>>

\* What the file system holds at the paths given on the command line, and
\* what Bun.file(path).size is there.  The size of a file is a number.  The
\* size of a directory is whatever the runtime reports for one: "undefined"
\* where it reports none, "number" where a Blob's size is always a number.
PathEntries ==
    {[path |-> <<<<"nowhere", "">>>>, kind |-> "missing", size |-> "number",
      children |-> <<>>],
     [path |-> <<<<"defaults", ".json">>>>, kind |-> "file", size |-> "number",
      children |-> <<>>],
     [path |-> <<<<"notes", ".yaml">>>>, kind |-> "file", size |-> "number",
      children |-> <<>>],
     [path |-> <<<<"empty", "">>>>, kind |-> "dir", size |-> "undefined",
      children |-> <<>>]}
    \cup {[path |-> <<<<"profiles", "">>>>, kind |-> "dir", size |-> sz,
            children |-> <<<<"strict", ".json">>, <<"README", ".md">>>>] :
             sz \in {"undefined", "number"}}

PathLists == UNION {[1..n -> PathEntries] : n \in 1..MaxPaths}

\* findConfigFiles: nonexistent paths are skipped; a path whose size is
\* undefined is read as a directory and gives its .json children; any other
\* path is taken as a file and kept when its own extension is .json
FilesOfPath(entry) ==
    CASE entry.kind = "missing" -> <<>>
      [] entry.size = "undefined" ->
           LET kept == SelectSeq(entry.children, LAMBDA f : f[2] = ".json")
           IN  [i \in 1..Len(kept) |-> join(entry.path, kept[i])]
      [] OTHER ->
           IF extname(entry.path) = ".json" THEN <<entry.path>> ELSE <<>>

findConfigFiles(paths) == Concat([i \in 1..Len(paths) |-> FilesOfPath(paths[i])])

\* The tally of generateSummary: message -> number of pushes of that message
Histogram(messages) == [m \in Range(messages) |-> Count(messages, m)]

generateSummary(rs) ==
    [commonErrors |-> Histogram(Concat([i \in 1..Len(rs) |-> rs[i].errors])),
     commonWarnings |-> Histogram(Concat([i \in 1..Len(rs) |-> rs[i].warnings]))]

\* run: const report: ValidationReport = {...}
ValidationReport(files, rs, valid, invalid) ==
    [totalFiles |-> Len(files),
     validFiles |-> valid,
     invalidFiles |-> invalid,
     results |-> rs,
     summary |-> generateSummary(rs)]

\* The documents a run may find behind a discovered path
RunConfigs ==
    {[BaseConfig EXCEPT !.min_test_coverage = {80}],
     [BaseConfig EXCEPT !.check_tests = {FALSE}, !.min_test_coverage = {80}],
     [BaseConfig EXCEPT
        !.file_patterns = {<<<<"d", "i", "s", "t", "/", "*">>, <<"d", "i", "s", "t", "/", "*">>>>},
        !.directory_patterns = {<<<<"d", "i", "s", "t", "/">>>>}]}

RunFiles(path) ==
    {MissingFile(path), BrokenFile(path)}
    \cup {JsonFile(path, c, <<>>) : c \in RunConfigs}
    \cup {JsonFile(path, BaseConfig, e) : e \in SchemaOutcomes \ {<<>>}}

ValidatorIdle ==
    /\ vpc = "idle" /\ configPaths = <<>> /\ configFiles = <<>>
    /\ results = <<>> /\ validFiles = 0 /\ invalidFiles = 0
    /\ vReport = <<>> /\ vWritten = FALSE /\ vExit = -1

\* What a process may be started with: its credentials (APP_ID and
\* PRIVATE_KEY) and the file its constructor loads (the schema, or the
\* repository list); "bad format" is a JSON file without a `repositories`
\* array
SetupFaults == {"no credentials", "file missing", "not JSON", "bad format"}
ValidatorSetups == {"ok", "file missing", "not JSON"}
ListSetups == {"ok"} \cup SetupFaults

\* main: new ConfigValidator(schemaPath, configPaths); loadSchema raises when
\* the schema file is missing or is not JSON, and main's catch exits 1
LoadSchema ==
    /\ vpc = "main"
    /\ LET schemaLoads == setup = "ok"
       IN
         IF schemaLoads
         THEN vpc' = "find" /\ vExit' = vExit
         ELSE vpc' = "exited" /\ vExit' = 1
    /\ UNCHANGED <<configPaths, configFiles, results, validFiles, invalidFiles,
                   vReport, vWritten>>
    /\ UNCHANGED notValidator

\* A faulty run that raises as soon as one input path does not exist
FindConfigFilesStrict ==
    /\ vpc = "find"
    /\ configFiles' = findConfigFiles(configPaths)
    /\ IF configFiles' = <<>> \/ \E i \in 1..Len(configPaths) : configPaths[i].kind = "missing"
       THEN vpc' = "exited" /\ vExit' = 1
       ELSE vpc' = "validate" /\ vExit' = vExit
    /\ UNCHANGED <<configPaths, results, validFiles, invalidFiles, vReport, vWritten>>
    /\ UNCHANGED notValidator

\* run: findConfigFiles, and the throw when nothing was found
FindConfigFiles ==
    /\ vpc = "find"
    /\ configFiles' = findConfigFiles(configPaths)
    /\ IF configFiles' = <<>>
       THEN vpc' = "exited" /\ vExit' = 1
       ELSE vpc' = "validate" /\ vExit' = vExit
    /\ UNCHANGED <<configPaths, results, validFiles, invalidFiles, vReport, vWritten>>
    /\ UNCHANGED notValidator

\* run: one iteration of `for (const file of configFiles)`
ValidateNextFile ==
    /\ vpc = "validate"
    /\ Len(results) < Len(configFiles)
    /\ \E file \in RunFiles(configFiles[Len(results) + 1]) :
         LET result == validateConfig(file)
         IN  /\ results' = Append(results, result)
             /\ IF result.valid
                THEN validFiles' = validFiles + 1 /\ invalidFiles' = invalidFiles
                ELSE invalidFiles' = invalidFiles + 1 /\ validFiles' = validFiles
    /\ UNCHANGED <<vpc, configPaths, configFiles, vReport, vWritten, vExit>>
    /\ UNCHANGED notValidator

\* run: the report built after the loop
BuildReport ==
    /\ vpc = "validate"
    /\ Len(results) = Len(configFiles)
    /\ vReport' = <<ValidationReport(configFiles, results, validFiles, invalidFiles)>>
    /\ vpc' = "write"
    /\ UNCHANGED <<configPaths, configFiles, results, validFiles, invalidFiles,
                   vWritten, vExit>>
    /\ UNCHANGED notValidator

\* main: Bun.write(reportPath, ...), whose promise is not awaited: the file
\* is on disk when the call returns, or the write is still pending
WriteReport ==
    /\ vpc = "write"
    /\ vWritten' \in BOOLEAN
    /\ vpc' = "exit"
    /\ UNCHANGED <<configPaths, configFiles, results, validFiles, invalidFiles,
                   vReport, vExit>>
    /\ UNCHANGED notValidator

\* main: process.exit(1) if report.invalidFiles > 0, which ends the process
\* with the write as it stands; else main returns and the process ends once
\* the pending write is done
ExitValidator ==
    /\ vpc = "exit"
    /\ IF vReport[1].invalidFiles > 0
       THEN vExit' = 1 /\ vWritten' = vWritten
       ELSE vExit' = 0 /\ vWritten' = TRUE
    /\ vpc' = "exited"
    /\ UNCHANGED <<configPaths, configFiles, results, validFiles, invalidFiles,
                   vReport>>
    /\ UNCHANGED notValidator

(***************************************************************************)
(* The update propagator: scripts/update-propagation.ts, UpdatePropagator  *)
(***************************************************************************)
MaxTargets == 2

\* Buffer.from(text).toString('base64') and Buffer.from(b, 'base64').toString()
Base64Encode(text) == [base64 |-> text]
Base64Decode(encoded) == encoded.base64

\* `@v${this.config.workflowVersion}`
VersionMarker(version) == <<"@", "v">> \o version

\* `workflow-automation/update-v${this.config.workflowVersion}`
BranchName(version) == <<"workflow-automation/update-", "v">> \o version

\* repo.configProfile || 'default'
ProfileOf(repo) ==
    IF repo.configProfile = {} \/ repo.configProfile = {<<>>} THEN <<"default">>
    ELSE CHOOSE q \in repo.configProfile : TRUE

\* generateCallerWorkflow: the `uses:` line of the pr-review workflow and the
\* config-profile input; the rest of the template is fixed text
generateCallerWorkflow(repo, version) ==
    <<"name: AI Code Review", "\n", " ", "uses:", " ", "R", "/.github/workflows/pr-review.yml">>
    \o VersionMarker(version)
    \o <<"\n", " ", "config-profile:", " ">> \o ProfileOf(repo) \o <<"\n", "secrets">>

\* generateOnDemandWorkflow
generateOnDemandWorkflow(repo, version) ==
    <<"name: AI On-Demand Assistant", "\n", " ", "uses:", " ", "R", "/.github/workflows/issue-response.yml">>
    \o VersionMarker(version)
    \o <<"\n", " ", "config-profile:", " ">> \o ProfileOf(repo) \o <<"\n", "bot-mention", "\n", "secrets">>

\* repo.workflowPath.replace('ai-review.yml', 'ai-on-demand.yml'): the first
\* occurrence of the file name is replaced, a path without it is unchanged
OnDemandPath(workflowPath) ==
    IF \E i \in 1..Len(workflowPath) : workflowPath[i] = "ai-review.yml"
    THEN LET k == CHOOSE i \in 1..Len(workflowPath) :
                      /\ workflowPath[i] = "ai-review.yml"
                      /\ \A j \in 1..(i - 1) : workflowPath[j] # "ai-review.yml"
         IN  [workflowPath EXCEPT ![k] = "ai-on-demand.yml"]
    ELSE workflowPath

PathsOf(repo) == {repo.workflowPath, OnDemandPath(repo.workflowPath)}

\* ---- the hosted repository of one target -------------------------------
FileEntry(text) == [kind |-> "file", text |-> text]
DirEntry == [kind |-> "dir", text |-> <<>>]

NoFiles(repo) == [q \in PathsOf(repo) |-> {}]

OlderVersion == <<"0", ".", "9">>

\* What the default branch may hold at the target's workflowPath
MainFileChoices(repo, version) ==
    {{},
     {FileEntry(generateCallerWorkflow(repo, version))},
     {FileEntry(generateCallerWorkflow(repo, OlderVersion))},
     {FileEntry(generateCallerWorkflow(repo, version \o <<".", "3">>))},
     {FileEntry(<<"uses:", " ", "R", "/.github/workflows/pr-review.yml", "@", "m", "a", "i", "n", "\n">>)},
     {FileEntry(<<"name: CI", "\n">>)},
     {DirEntry}}

GeneratedFiles(repo, version) ==
    [q \in PathsOf(repo) |->
        IF q = OnDemandPath(repo.workflowPath)
        THEN {FileEntry(generateOnDemandWorkflow(repo, version))}
        ELSE {FileEntry(generateCallerWorkflow(repo, version))}]

Hosted(installed, main, branch, pr) ==
    [installed |-> installed, main |-> main, branch |-> branch,
     pr |-> pr, labels |-> FALSE]

\* The states a target's hosted repository may be in when its turn comes
RemoteInits(repo, version) ==
    LET old == [NoFiles(repo) EXCEPT
                  ![repo.workflowPath] = {FileEntry(generateCallerWorkflow(repo, OlderVersion))}]
    IN  {Hosted(FALSE, NoFiles(repo), {}, FALSE)}
        \cup {Hosted(TRUE, [NoFiles(repo) EXCEPT ![repo.workflowPath] = f], {}, FALSE) :
                f \in MainFileChoices(repo, version)}
        \cup {Hosted(TRUE, old, {GeneratedFiles(repo, version)}, TRUE),
              Hosted(TRUE, old, {old}, FALSE)}

NoRemote == Hosted(FALSE, <<>>, {}, FALSE)

\* ---- the answers of the remote API ------------------------------------
InstallOutcomes(r) == IF r.installed THEN {"ok", "500"} ELSE {"404", "500"}
GetContentOutcomes(files, path) ==
    IF files[path] = {} THEN {"404", "500"} ELSE {"ok", "500"}
ReadOutcomes == {"ok", "500"}
CreateRefOutcomes(r) == IF r.branch = {} THEN {"ok", "500"} ELSE {"422", "500"}
\* git.updateRef is called without `force`: the host moves the branch only
\* forward, so it rejects the call (422) when the branch holds commits of its
\* own, that is when its files differ from the default branch's
UpdateRefOutcomes(r) == IF r.branch = {r.main} THEN {"ok", "500"} ELSE {"422", "500"}
PutOutcomes(files, path) ==
    IF DirEntry \in files[path] THEN {"422", "500"} ELSE {"ok", "500"}
PullsCreateOutcomes(r) == IF r.pr THEN {"422", "500"} ELSE {"ok", "500"}
LabelOutcomes == {"ok", "404", "500"}

\* A faulty needsUpdate: it looks for `@${version}`, without the "v"
needsUpdateBareVersion(entry, version) ==
    IF entry.kind = "file"
    THEN ~Includes(Base64Decode(Base64Encode(entry.text)), <<"@">> \o version)
    ELSE TRUE

\* needsUpdate, given the entry repos.getContent returned: a file needs an
\* update unless its decoded content includes the version marker; anything
\* without a `content` property needs one
needsUpdateOf(entry, version) ==
    IF entry.kind = "file"
    THEN ~Includes(Base64Decode(Base64Encode(entry.text)), VersionMarker(version))
    ELSE TRUE

Write(op, path, withSha) == [op |-> op, path |-> path, sha |-> withSha]

\* One remote call and the status it was answered with; `path` is <<>> for
\* a call that names no file; "getContent ref" is the read of the update
\* branch in updateFile, "getContent" the read of the default branch
Answer(call, path, status) == [call |-> call, path |-> path, status |-> status]

LocalInit == [caller |-> "update", needs |-> {}, fileNo |-> 1, sha |-> {}]

CurrentRepo == pConfig.repositories[pIdx]

PropagatorIdle ==
    /\ ppc = "idle" /\ pConfig = <<>> /\ pIdx = 0 /\ remote = NoRemote
    /\ pLocal = LocalInit /\ writes = <<>> /\ answers = <<>>
    /\ pResults = [success |-> 0, skipped |-> 0, failed |-> 0]
    /\ tallied = "none" /\ pExit = -1

\* A faulty run that never looks at the flag
IsEnabledAlways(repo) == TRUE

\* `repo.enabled` as a condition: true only when the flag is present and true
IsEnabled(repo) == TRUE \in repo.enabled

\* A faulty updateRepository without its dry-run return
ReturnsOnlyWhenCurrent(needs, dryRun) == ~needs

\* updateRepository returns before its try block when the target is current
\* or the run is a dry run
ReturnsBeforeUpdate(needs, dryRun) == ~needs \/ dryRun

\* A faulty run whose catch counts the failure and leaves the loop
FailedAborts ==
    /\ pResults' = [pResults EXCEPT !.failed = @ + 1]
    /\ tallied' = "failed"
    /\ ppc' = "done"

\* run's catch: results.failed++, then the next iteration
Failed ==
    /\ pResults' = [pResults EXCEPT !.failed = @ + 1]
    /\ tallied' = "failed"
    /\ ppc' = "loop"

\* updateRepository returned: run evaluates `repo.enabled && await
\* this.needsUpdate(repo)`, whose first await is the installation lookup
ReturnedToRun ==
    /\ ppc' = "nu_install"
    /\ UNCHANGED <<pResults, tallied>>

\* A faulty main that starts the run whatever it was started with
PropagatorMainUnchecked ==
    /\ ppc = "main"
    /\ ppc' = "loop" /\ pExit' = pExit
    /\ UNCHANGED <<pConfig, pIdx, remote, pLocal, writes, answers, pResults, tallied>>
    /\ UNCHANGED notPropagator

\* main: the credentials check and new UpdatePropagator(...), whose
\* loadConfig raises when the file is missing or is not JSON; without a
\* `repositories` array run raises at `this.config.repositories.length`,
\* before its loop.  main's catch exits 1.
PropagatorMain ==
    /\ ppc = "main"
    /\ LET credentials == setup # "no credentials"
           configLoads == setup \notin {"file missing", "not JSON", "bad format"}
       IN
         IF credentials /\ configLoads
         THEN ppc' = "loop" /\ pExit' = pExit
         ELSE ppc' = "done" /\ pExit' = 1
    /\ UNCHANGED <<pConfig, pIdx, remote, pLocal, writes, answers, pResults, tallied>>
    /\ UNCHANGED notPropagator

\* run: the next iteration of `for (const repo of this.config.repositories)`
\* up to its first await.  A target that is not enabled makes no call at all:
\* updateRepository returns and the && short-circuits to results.skipped++.
RunLoop ==
    /\ ppc = "loop"
    /\ pIdx < Len(pConfig.repositories)
    /\ pIdx' = pIdx + 1
    /\ writes' = <<>>
    /\ answers' = <<>>
    /\ LET repo == pConfig.repositories[pIdx + 1]
       IN  /\ remote' \in RemoteInits(repo, pConfig.workflowVersion)
           /\ IF ~IsEnabled(repo)
              THEN /\ pResults' = [pResults EXCEPT !.skipped = @ + 1]
                   /\ tallied' = "skipped"
                   /\ ppc' = "loop"
                   /\ pLocal' = LocalInit
              ELSE /\ pResults' = pResults
                   /\ tallied' = "none"
                   /\ ppc' = "nu_install"
                   /\ pLocal' = LocalInit
    /\ UNCHANGED <<pConfig, pExit>>
    /\ UNCHANGED notPropagator

\* needsUpdate: await this.getInstallationOctokit(owner, repo)
NeedsUpdateInstall ==
    /\ ppc = "nu_install"
    /\ \E outcome \in InstallOutcomes(remote) :
         /\ answers' = Append(answers, Answer("getRepoInstallation", <<>>, outcome))
         /\ IF outcome = "ok"
            THEN ppc' = "nu_get" /\ UNCHANGED <<pResults, tallied>>
            ELSE Failed
    /\ UNCHANGED <<pConfig, pIdx, remote, pLocal, writes, pExit>>
    /\ UNCHANGED notPropagator

\* needsUpdate: await installationOctokit.repos.getContent(...), the value
\* returned, and what its caller does with it
NeedsUpdateGetContent ==
    /\ ppc = "nu_get"
    /\ \E outcome \in GetContentOutcomes(remote.main, CurrentRepo.workflowPath) :
         /\ answers' = Append(answers, Answer("getContent", CurrentRepo.workflowPath, outcome))
         /\ IF outcome = "500"
            THEN Failed /\ pLocal' = pLocal
            ELSE
              LET needs == IF outcome = "404" THEN TRUE
                           ELSE needsUpdateOf(CHOOSE e \in remote.main[CurrentRepo.workflowPath] : TRUE,
                                              pConfig.workflowVersion)
              IN  IF pLocal.caller = "update"
                  THEN /\ pLocal' = [pLocal EXCEPT !.needs = {needs}, !.caller = "run"]
                       /\ IF ReturnsBeforeUpdate(needs, pConfig.dryRun)
                          THEN ReturnedToRun
                          ELSE ppc' = "up_install" /\ UNCHANGED <<pResults, tallied>>
                  ELSE /\ pLocal' = pLocal
                       /\ ppc' = "loop"
                       /\ IF needs
                          THEN /\ pResults' = [pResults EXCEPT !.success = @ + 1]
                               /\ tallied' = "success"
                          ELSE /\ pResults' = [pResults EXCEPT !.skipped = @ + 1]
                               /\ tallied' = "skipped"
    /\ UNCHANGED <<pConfig, pIdx, remote, writes, pExit>>
    /\ UNCHANGED notPropagator

\* updateRepository: await this.getInstallationOctokit(owner, repo)
UpdateInstall ==
    /\ ppc = "up_install"
    /\ \E outcome \in InstallOutcomes(remote) :
         /\ answers' = Append(answers, Answer("getRepoInstallation", <<>>, outcome))
         /\ IF outcome = "ok"
            THEN ppc' = "up_repo" /\ UNCHANGED <<pResults, tallied>>
            ELSE Failed
    /\ UNCHANGED <<pConfig, pIdx, remote, pLocal, writes, pExit>>
    /\ UNCHANGED notPropagator

\* updateRepository: await installationOctokit.repos.get(...)
ReposGet ==
    /\ ppc = "up_repo"
    /\ \E outcome \in ReadOutcomes :
         /\ answers' = Append(answers, Answer("get", <<>>, outcome))
         /\ IF outcome = "ok"
            THEN ppc' = "up_branch" /\ UNCHANGED <<pResults, tallied>>
            ELSE Failed
    /\ UNCHANGED <<pConfig, pIdx, remote, pLocal, writes, pExit>>
    /\ UNCHANGED notPropagator

\* updateRepository: await installationOctokit.repos.getBranch(...)
GetBranch ==
    /\ ppc = "up_branch"
    /\ \E outcome \in ReadOutcomes :
         /\ answers' = Append(answers, Answer("getBranch", <<>>, outcome))
         /\ IF outcome = "ok"
            THEN ppc' = "up_createRef" /\ UNCHANGED <<pResults, tallied>>
            ELSE Failed
    /\ UNCHANGED <<pConfig, pIdx, remote, pLocal, writes, pExit>>
    /\ UNCHANGED notPropagator

\* updateRepository: await installationOctokit.git.createRef(...); a 422
\* leads to updateRef, any other failure is rethrown
CreateRef ==
    /\ ppc = "up_createRef"
    /\ writes' = Append(writes, Write("createRef", BranchName(pConfig.workflowVersion), FALSE))
    /\ \E outcome \in CreateRefOutcomes(remote) :
         /\ answers' = Append(answers, Answer("createRef", <<>>, outcome))
         /\ CASE outcome = "ok" ->
                   /\ remote' = [remote EXCEPT !.branch = {remote.main}]
                   /\ ppc' = "uf_get"
                   /\ UNCHANGED <<pResults, tallied>>
              [] outcome = "422" ->
                   /\ remote' = remote
                   /\ ppc' = "up_updateRef"
                   /\ UNCHANGED <<pResults, tallied>>
              [] OTHER -> Failed /\ remote' = remote
    /\ UNCHANGED <<pConfig, pIdx, pLocal, pExit>>
    /\ UNCHANGED notPropagator

\* updateRepository: await installationOctokit.git.updateRef(...)
UpdateRef ==
    /\ ppc = "up_updateRef"
    /\ writes' = Append(writes, Write("updateRef", BranchName(pConfig.workflowVersion), FALSE))
    /\ \E outcome \in UpdateRefOutcomes(remote) :
         /\ answers' = Append(answers, Answer("updateRef", <<>>, outcome))
         /\ IF outcome = "ok"
            THEN /\ remote' = [remote EXCEPT !.branch = {remote.main}]
                 /\ ppc' = "uf_get"
                 /\ UNCHANGED <<pResults, tallied>>
            ELSE Failed /\ remote' = remote
    /\ UNCHANGED <<pConfig, pIdx, pLocal, pExit>>
    /\ UNCHANGED notPropagator

\* The path and the content of the file updateFile is called for
FilePath(repo, fileNo) ==
    IF fileNo = 1 THEN repo.workflowPath ELSE OnDemandPath(repo.workflowPath)
FileContent(repo, fileNo, version) ==
    IF fileNo = 1 THEN generateCallerWorkflow(repo, version)
    ELSE generateOnDemandWorkflow(repo, version)

BranchFiles(r) == CHOOSE files \in r.branch : TRUE

\* A faulty updateFile that reads the file and forgets its sha
UpdateFileGetBlind ==
    /\ ppc = "uf_get"
    /\ LET path == FilePath(CurrentRepo, pLocal.fileNo)
       IN  \E outcome \in GetContentOutcomes(BranchFiles(remote), path) :
             /\ answers' = Append(answers, Answer("getContent ref", path, outcome))
             /\ IF outcome \in {"ok", "404"}
                THEN /\ pLocal' = [pLocal EXCEPT !.sha = {}]
                     /\ ppc' = "uf_put"
                     /\ UNCHANGED <<pResults, tallied>>
                ELSE Failed /\ pLocal' = pLocal
    /\ UNCHANGED <<pConfig, pIdx, remote, writes, pExit>>
    /\ UNCHANGED notPropagator

\* updateFile: await octokit.repos.getContent({..., ref: branch}); the sha
\* of an existing file is kept, a 404 means a creation, anything else is
\* rethrown
UpdateFileGet ==
    /\ ppc = "uf_get"
    /\ LET path == FilePath(CurrentRepo, pLocal.fileNo)
       IN  \E outcome \in GetContentOutcomes(BranchFiles(remote), path) :
             /\ answers' = Append(answers, Answer("getContent ref", path, outcome))
             /\ CASE outcome = "ok" ->
                       /\ pLocal' = [pLocal EXCEPT !.sha =
                                       IF DirEntry \in BranchFiles(remote)[path]
                                       THEN {} ELSE {"sha"}]
                       /\ ppc' = "uf_put"
                       /\ UNCHANGED <<pResults, tallied>>
                  [] outcome = "404" ->
                       /\ pLocal' = [pLocal EXCEPT !.sha = {}]
                       /\ ppc' = "uf_put"
                       /\ UNCHANGED <<pResults, tallied>>
                  [] OTHER -> Failed /\ pLocal' = pLocal
    /\ UNCHANGED <<pConfig, pIdx, remote, writes, pExit>>
    /\ UNCHANGED notPropagator

\* A faulty updateRepository that opens the change request after its first
\* updateFile
UpdateFilePutOnce ==
    /\ ppc = "uf_put"
    /\ LET path == FilePath(CurrentRepo, pLocal.fileNo)
           content == Base64Encode(FileContent(CurrentRepo, pLocal.fileNo,
                                               pConfig.workflowVersion))
       IN  /\ writes' = Append(writes, Write("putFile", path, pLocal.sha # {}))
           /\ \E outcome \in PutOutcomes(BranchFiles(remote), path) :
                /\ answers' = Append(answers, Answer("createOrUpdateFileContents", path, outcome))
                /\ IF outcome = "ok"
                   THEN /\ remote' = [remote EXCEPT !.branch =
                             {[BranchFiles(remote) EXCEPT
                                 ![path] = {FileEntry(Base64Decode(content))}]}]
                        /\ pLocal' = [pLocal EXCEPT !.fileNo = 2, !.sha = {}]
                        /\ ppc' = "pr_create"
                        /\ UNCHANGED <<pResults, tallied>>
                   ELSE Failed /\ remote' = remote /\ pLocal' = pLocal
    /\ UNCHANGED <<pConfig, pIdx, pExit>>
    /\ UNCHANGED notPropagator

\* updateFile: await octokit.repos.createOrUpdateFileContents(...); after the
\* second file updateRepository goes on to createPullRequest
UpdateFilePut ==
    /\ ppc = "uf_put"
    /\ LET path == FilePath(CurrentRepo, pLocal.fileNo)
           content == Base64Encode(FileContent(CurrentRepo, pLocal.fileNo,
                                               pConfig.workflowVersion))
       IN  /\ writes' = Append(writes, Write("putFile", path, pLocal.sha # {}))
           /\ \E outcome \in PutOutcomes(BranchFiles(remote), path) :
                /\ answers' = Append(answers, Answer("createOrUpdateFileContents", path, outcome))
                /\ IF outcome = "ok"
                   THEN /\ remote' = [remote EXCEPT !.branch =
                             {[BranchFiles(remote) EXCEPT
                                 ![path] = {FileEntry(Base64Decode(content))}]}]
                        /\ pLocal' = [pLocal EXCEPT !.fileNo = 2, !.sha = {}]
                        /\ ppc' = IF pLocal.fileNo = 1 THEN "uf_get" ELSE "pr_create"
                        /\ UNCHANGED <<pResults, tallied>>
                   ELSE Failed /\ remote' = remote /\ pLocal' = pLocal
    /\ UNCHANGED <<pConfig, pIdx, pExit>>
    /\ UNCHANGED notPropagator

\* createPullRequest: await octokit.pulls.create(...); a 422 is logged and
\* createPullRequest returns, any other failure is rethrown
PullsCreate ==
    /\ ppc = "pr_create"
    /\ writes' = Append(writes, Write("createPull", BranchName(pConfig.workflowVersion), FALSE))
    /\ \E outcome \in PullsCreateOutcomes(remote) :
         /\ answers' = Append(answers, Answer("pulls.create", <<>>, outcome))
         /\ CASE outcome = "ok" ->
                   /\ remote' = [remote EXCEPT !.pr = TRUE]
                   /\ ppc' = "pr_labels"
                   /\ UNCHANGED <<pResults, tallied>>
              [] outcome = "422" ->
                   /\ remote' = remote
                   /\ ReturnedToRun
              [] OTHER -> Failed /\ remote' = remote
    /\ UNCHANGED <<pConfig, pIdx, pLocal, pExit>>
    /\ UNCHANGED notPropagator

\* createPullRequest: await octokit.issues.addLabels(...); a failure is
\* caught and logged
AddLabels ==
    /\ ppc = "pr_labels"
    /\ writes' = Append(writes, Write("addLabels", BranchName(pConfig.workflowVersion), FALSE))
    /\ \E outcome \in LabelOutcomes :
         /\ answers' = Append(answers, Answer("addLabels", <<>>, outcome))
         /\ remote' = IF outcome = "ok" THEN [remote EXCEPT !.labels = TRUE] ELSE remote
    /\ ReturnedToRun
    /\ UNCHANGED <<pConfig, pIdx, pLocal, pExit>>
    /\ UNCHANGED notPropagator

\* A faulty run that never exits 1
PropagatorSummaryExitsZero ==
    /\ ppc = "loop"
    /\ pIdx = Len(pConfig.repositories)
    /\ ppc' = "done"
    /\ pExit' = 0
    /\ UNCHANGED <<pConfig, pIdx, remote, pLocal, writes, answers, pResults, tallied>>
    /\ UNCHANGED notPropagator


\* run: after the loop, process.exit(1) if results.failed > 0
PropagatorSummary ==
    /\ ppc = "loop"
    /\ pIdx = Len(pConfig.repositories)
    /\ ppc' = "done"
    /\ pExit' = IF pResults.failed > 0 THEN 1 ELSE 0
    /\ UNCHANGED <<pConfig, pIdx, remote, pLocal, writes, answers, pResults, tallied>>
    /\ UNCHANGED notPropagator

\* ---- the repository lists of the model ---------------------------------
StandardPath == <<".github/workflows/", "ai-review.yml">>
CustomPath == <<".github/workflows/", "claude.yml">>

Target(name, path, profile, enabled) ==
    [name |-> name, workflowPath |-> path, configProfile |-> profile,
     enabled |-> enabled]

TargetChoices ==
    {Target("siwe", StandardPath, {}, {TRUE}),
     Target("siwe-py", CustomPath, {<<"backend">>}, {TRUE}),
     Target("siwe-rs", StandardPath, {<<"backend">>}, {FALSE}),
     Target("siwe-go", StandardPath, {}, {})}

TargetLists == UNION {[1..n -> TargetChoices] : n \in 0..MaxTargets}

WorkflowVersions == {<<"1", ".", "2">>}

(***************************************************************************)
(* The version checker: scripts/update-propagation.ts, VersionChecker      *)
(***************************************************************************)
MaxRepos == 2

Whitespace == {" ", "\n", "\t"}

MainToken == <<"m", "a", "i", "n">>
Unknown == <<"unknown">>

\* Length of the short commit identifier: sha.substring(0, 7)
ShortShaLen == 7

\* s.replace(/^v/, '') and `if (s.startsWith('v')) s = s.substring(1)`
StripLeadingV(s) == IF s # <<>> /\ s[1] = "v" THEN Tail(s) ELSE s

\* loadRepositories: config.repositories.filter(repo => repo.enabled !== false)
loadRepositories(list) == SelectSeq(list, LAMBDA repo : FALSE \notin repo.enabled)

\* An error raised by a remote call: its HTTP status and its message.
\* getInstallationOctokit turns a 404 into a new Error, which has no status.
ApiError(status) == [status |-> status, message |-> <<"HttpError ", status>>]
NotInstalledError == [status |-> "none", message |-> <<"GitHub App ", "not installed", " on repo">>]
InstallError(install) == IF install = "404" THEN NotInstalledError ELSE ApiError(install)

Returned(value) == [threw |-> FALSE, value |-> value]
Threw == [threw |-> TRUE, value |-> <<>>]

\* A faulty getCentralVersion whose catch falls back on every error
getCentralVersionAnyError(install1, release, install2, commits) ==
    IF install1 = "ok" /\ release.status = "ok"
    THEN Returned(StripLeadingV(release.tag_name))
    ELSE IF install2 = "ok" /\ commits.status = "ok"
              /\ commits.shas # <<>> /\ commits.shas[1] # <<>>
         THEN Returned(SubSeq(commits.shas[1], 1,
                 IF Len(commits.shas[1]) < ShortShaLen
                 THEN Len(commits.shas[1]) ELSE ShortShaLen))
         ELSE Returned(Unknown)

\* getCentralVersion, given the answers of its four awaits: the installation
\* lookup and getLatestRelease of the try block, the installation lookup and
\* listCommits of the fallback
getCentralVersion(install1, release, install2, commits) ==
    IF install1 = "ok" /\ release.status = "ok"
    THEN Returned(StripLeadingV(release.tag_name))
    ELSE LET error == IF install1 # "ok" THEN InstallError(install1)
                      ELSE ApiError(release.status)
         IN  IF error.status = "404"
             THEN IF install2 = "ok" /\ commits.status = "ok"
                  THEN IF commits.shas = <<>> \/ commits.shas[1] = <<>>
                       THEN Returned(Unknown)
                       ELSE Returned(SubSeq(commits.shas[1], 1,
                               IF Len(commits.shas[1]) < ShortShaLen
                               THEN Len(commits.shas[1]) ELSE ShortShaLen))
                  ELSE Returned(Unknown)
             ELSE Threw

\* extractVersionFromWorkflow: the first match of
\*   /signinwithethereum\/workflow-automation[^@]*@([^\s\n]+)/
\* A match starts at an occurrence i of the repository name, runs to the
\* first "@" after it (j) and captures the non-blank run that follows, which
\* must not be empty.  {} is null; a leading "v" of the capture is dropped.
FirstAt(content, i) ==
    IF \E j \in (i + 1)..Len(content) : content[j] = "@"
    THEN CHOOSE j \in (i + 1)..Len(content) :
            content[j] = "@" /\ \A k \in (i + 1)..(j - 1) : content[k] # "@"
    ELSE 0

MatchesAt(content, i) ==
    /\ content[i] = "R"
    /\ FirstAt(content, i) # 0
    /\ FirstAt(content, i) < Len(content)
    /\ content[FirstAt(content, i) + 1] \notin Whitespace

CaptureFrom(content, start) ==
    LET stop == IF \E k \in start..Len(content) : content[k] \in Whitespace
                THEN (CHOOSE k \in start..Len(content) :
                         /\ content[k] \in Whitespace
                         /\ \A l \in start..(k - 1) : content[l] \notin Whitespace) - 1
                ELSE Len(content)
    IN  SubSeq(content, start, stop)

extractVersionFromWorkflow(content) ==
    IF \E i \in 1..Len(content) : MatchesAt(content, i)
    THEN LET i == CHOOSE i \in 1..Len(content) :
                      MatchesAt(content, i) /\ \A h \in 1..(i - 1) : ~MatchesAt(content, h)
         IN  {StripLeadingV(CaptureFrom(content, FirstAt(content, i) + 1))}
    ELSE {}

\* A JavaScript string is truthy unless it is null or empty
Truthy(optString) == optString # {} /\ optString # {<<>>}

\* checkRepositoryVersion, given the answers of its three awaits.  The entry
\* is built in place: the catch block overwrites status and errorMessage and
\* leaves whatever the try block had already stored.
checkRepositoryVersion(repo, install, file, pulls) ==
    LET repoInfo == [name |-> repo.name, workflowPath |-> repo.workflowPath,
                     configProfile |-> repo.configProfile,
                     currentVersion |-> {}, status |-> "error",
                     errorMessage |-> {}, pullRequestUrl |-> {}]
        caught(info, error) ==
            IF Includes(error.message, <<"not installed">>)
            THEN [info EXCEPT !.status = "error",
                              !.errorMessage = {<<"GitHub App not installed on repository">>}]
            ELSE IF error.status = "404"
            THEN [info EXCEPT !.status = "missing",
                              !.errorMessage = {<<"Workflow file not found or repository not accessible">>}]
            ELSE [info EXCEPT !.status = "error", !.errorMessage = {error.message}]
    IN  IF install # "ok" THEN caught(repoInfo, InstallError(install))
        ELSE IF file.status # "ok" THEN caught(repoInfo, ApiError(file.status))
        ELSE
          LET fetched ==
                IF file.entry.kind = "file"
                THEN LET version == extractVersionFromWorkflow(
                                        Base64Decode(Base64Encode(file.entry.text)))
                     IN  IF Truthy(version)
                         THEN [repoInfo EXCEPT !.currentVersion = version,
                                               !.status = "up-to-date"]
                         ELSE [repoInfo EXCEPT !.currentVersion = version,
                                  !.status = "error",
                                  !.errorMessage = {<<"Could not extract version from workflow file">>}]
                ELSE [repoInfo EXCEPT !.status = "error",
                         !.errorMessage = {<<"Workflow file is not a regular file">>}]
          IN  IF pulls.status # "ok" THEN caught(fetched, ApiError(pulls.status))
              ELSE IF Len(pulls.urls) > 0
              THEN [fetched EXCEPT !.pullRequestUrl = {pulls.urls[1]}]
              ELSE fetched

\* A faulty updateVersionStatus that does not know the `main` token
updateVersionStatusNoMain(repositories, central) ==
    [i \in 1..Len(repositories) |->
        LET repo == repositories[i]
        IN  IF repo.status = "error" \/ repo.status = "missing" THEN repo
            ELSE IF \/ repo.currentVersion = {central}
                    \/ repo.currentVersion = {<<"v">> \o central}
            THEN [repo EXCEPT !.status = "up-to-date"]
            ELSE [repo EXCEPT !.status = "outdated"]]

\* updateVersionStatus: the entries after the comparison pass
updateVersionStatus(repositories, central) ==
    [i \in 1..Len(repositories) |->
        LET repo == repositories[i]
        IN  IF repo.status = "error" \/ repo.status = "missing" THEN repo
            ELSE IF \/ repo.currentVersion = {central}
                    \/ repo.currentVersion = {<<"v">> \o central}
                    \/ repo.currentVersion = {MainToken}
            THEN [repo EXCEPT !.status = "up-to-date"]
            ELSE [repo EXCEPT !.status = "outdated"]]

CountStatus(repositories, status) ==
    Cardinality({i \in 1..Len(repositories) : repositories[i].status = status})

\* JavaScript's < on strings over the characters the versions are written in
Alphabet == <<".", "0", "1", "2", "3", "4", "5", "6", "7", "8", "9",
              "a", "b", "c", "d", "e", "f", "i", "m", "n", "v">>
Rank(c) == CHOOSE i \in 1..Len(Alphabet) : Alphabet[i] = c

RECURSIVE StringLess(_, _)
StringLess(a, b) ==
    IF b = <<>> THEN FALSE
    ELSE IF a = <<>> THEN TRUE
    ELSE IF a[1] = b[1] THEN StringLess(Tail(a), Tail(b))
    ELSE Rank(a[1]) < Rank(b[1])

\* VersionChecker.generateSummary: the distribution of the truthy versions
\* and the smallest and largest of them under string comparison
versionSummary(repositories) ==
    LET versions == Concat([i \in 1..Len(repositories) |->
                       IF Truthy(repositories[i].currentVersion)
                       THEN <<CHOOSE v \in repositories[i].currentVersion : TRUE>>
                       ELSE <<>>])
    IN  [versionDistribution |-> Histogram(versions),
         oldestVersion |-> {v \in Range(versions) :
                              \A w \in Range(versions) : ~StringLess(w, v)},
         newestVersion |-> {v \in Range(versions) :
                              \A w \in Range(versions) : ~StringLess(v, w)}]

\* A faulty report that counts as errors the entries carrying an errorMessage
VersionReportByMessage(repositories, central) ==
    [centralVersion |-> central,
     totalRepositories |-> Len(repositories),
     upToDate |-> CountStatus(repositories, "up-to-date"),
     outdated |-> CountStatus(repositories, "outdated"),
     missing |-> CountStatus(repositories, "missing"),
     errors |-> Cardinality({i \in 1..Len(repositories) :
                               repositories[i].errorMessage # {}}),
     repositories |-> repositories,
     summary |-> versionSummary(repositories)]

\* run: the statistics and const report: VersionReport = {...}
VersionReport(repositories, central) ==
    [centralVersion |-> central,
     totalRepositories |-> Len(repositories),
     upToDate |-> CountStatus(repositories, "up-to-date"),
     outdated |-> CountStatus(repositories, "outdated"),
     missing |-> CountStatus(repositories, "missing"),
     errors |-> CountStatus(repositories, "error"),
     repositories |-> repositories,
     summary |-> versionSummary(repositories)]

\* ---- the answers of the remote API ------------------------------------
CheckerInstallOutcomes == {"ok", "404", "500"}

ReleaseOutcomes ==
    {[status |-> "ok", tag_name |-> <<"v", "1", ".", "2">>],
     [status |-> "ok", tag_name |-> <<"1", ".", "2">>],
     [status |-> "404", tag_name |-> <<>>],
     [status |-> "500", tag_name |-> <<>>]}

CommitOutcomes ==
    {[status |-> "ok", shas |-> <<<<"a", "b", "c", "d", "e", "f", "0", "1", "2">>>>],
     [status |-> "ok", shas |-> <<>>],
     [status |-> "500", shas |-> <<>>]}

\* What a target's default branch may hold at its workflowPath
CheckerContents(repo) ==
    {generateCallerWorkflow(repo, <<"1", ".", "2">>),
     generateCallerWorkflow(repo, OlderVersion),
     generateCallerWorkflow(repo, <<"1", ".", "2", ".", "3">>),
     <<"uses:", " ", "R", "/.github/workflows/pr-review.yml", "@", "m", "a", "i", "n", "\n">>,
     <<"uses:", " ", "R", "/x.yml", "@", "v", "v", "1", ".", "2">>,
     <<"uses:", " ", "R", "/x.yml", "@", "v", "\n">>,
     <<"name: CI", "\n", "uses:", " ", "actions/checkout", "@", "v", "4">>}

FileOutcomes(repo) ==
    {[status |-> "404", entry |-> DirEntry], [status |-> "500", entry |-> DirEntry],
     [status |-> "ok", entry |-> DirEntry]}
    \cup {[status |-> "ok", entry |-> FileEntry(c)] : c \in CheckerContents(repo)}

PullsOutcomes ==
    {[status |-> "ok", urls |-> <<>>],
     [status |-> "ok", urls |-> <<<<"https://github.com/o/r/pull/7">>>>],
     [status |-> "404", urls |-> <<>>],
     [status |-> "500", urls |-> <<>>]}

CentralIdle == gcvInput = <<>> /\ gcvResult = <<>>

CheckOneIdle == coInput = <<>> /\ coResult = <<>>

CentralInputs ==
    [install1 : CheckerInstallOutcomes, release : ReleaseOutcomes,
     install2 : CheckerInstallOutcomes, commits : CommitOutcomes]

\* getCentralVersion applied to one combination of answers
CallGetCentralVersion ==
    /\ gcvInput # <<>>
    /\ gcvResult = <<>>
    /\ gcvResult' = <<getCentralVersion(gcvInput.install1, gcvInput.release,
                                        gcvInput.install2, gcvInput.commits)>>
    /\ UNCHANGED gcvInput
    /\ UNCHANGED notCentral

CheckerIdle ==
    /\ cpc = "idle" /\ cList = <<>> /\ cRepositories = <<>>
    /\ centralVersion = {} /\ cInfos = <<>> /\ cChecked = <<>>
    /\ cReport = <<>> /\ cExit = -1

\* main: the credentials check and new VersionChecker(...), whose
\* loadRepositories raises when the file is missing, is not JSON or has no
\* `repositories` array
CheckerMain ==
    /\ cpc = "main"
    /\ LET credentials == setup # "no credentials"
           configLoads == setup \notin {"file missing", "not JSON", "bad format"}
       IN
         IF credentials /\ configLoads
         THEN /\ cRepositories' = loadRepositories(cList)
              /\ cpc' = "central" /\ cExit' = cExit
         ELSE /\ cRepositories' = cRepositories
              /\ cpc' = "done" /\ cExit' = 1
    /\ UNCHANGED <<cList, centralVersion, cInfos, cChecked, cReport>>
    /\ UNCHANGED notChecker

\* run: const centralVersion = await this.getCentralVersion(); an exception
\* reaches main's catch, which exits 1
GetCentralVersion ==
    /\ cpc = "central"
    /\ \E install1 \in CheckerInstallOutcomes, release \in ReleaseOutcomes,
          install2 \in CheckerInstallOutcomes, commits \in CommitOutcomes :
         LET got == getCentralVersion(install1, release, install2, commits)
         IN  IF got.threw
             THEN cpc' = "done" /\ cExit' = 1 /\ centralVersion' = centralVersion
             ELSE cpc' = "check" /\ cExit' = cExit /\ centralVersion' = {got.value}
    /\ UNCHANGED <<cList, cRepositories, cInfos, cChecked, cReport>>
    /\ UNCHANGED notChecker

\* run: one iteration of `for (const repo of this.repositories)`
CheckRepositoryVersion ==
    /\ cpc = "check"
    /\ Len(cInfos) < Len(cRepositories)
    /\ LET repo == cRepositories[Len(cInfos) + 1]
       IN  \E install \in CheckerInstallOutcomes, file \in FileOutcomes(repo),
              pulls \in PullsOutcomes :
             cInfos' = Append(cInfos, checkRepositoryVersion(repo, install, file, pulls))
    /\ UNCHANGED <<cpc, cList, cRepositories, centralVersion, cChecked, cReport, cExit>>
    /\ UNCHANGED notChecker

\* run: updateVersionStatus, the statistics, the report and its two files
BuildVersionReport ==
    /\ cpc = "check"
    /\ Len(cInfos) = Len(cRepositories)
    /\ LET central == CHOOSE v \in centralVersion : TRUE
           repositories == updateVersionStatus(cInfos, central)
       IN  /\ cChecked' = cInfos
           /\ cInfos' = repositories
           /\ cReport' = <<VersionReport(repositories, central)>>
    /\ cpc' = "exit"
    /\ UNCHANGED <<cList, cRepositories, centralVersion, cExit>>
    /\ UNCHANGED notChecker

\* main: process.exit(1) if anything is outdated, missing or in error
ExitChecker ==
    /\ cpc = "exit"
    /\ cExit' = IF \/ cReport[1].outdated > 0
                   \/ cReport[1].missing > 0
                   \/ cReport[1].errors > 0
                THEN 1 ELSE 0
    /\ cpc' = "done"
    /\ UNCHANGED <<cList, cRepositories, centralVersion, cInfos, cChecked, cReport>>
    /\ UNCHANGED notChecker

\* checkRepositoryVersion applied to one target and one combination of
\* answers
CallCheckRepositoryVersion ==
    /\ coInput # <<>>
    /\ coResult = <<>>
    /\ coResult' = <<checkRepositoryVersion(coInput.repo, coInput.install,
                                            coInput.file, coInput.pulls)>>
    /\ UNCHANGED coInput
    /\ UNCHANGED notCheckOne

CheckerTargetChoices ==
    {Target("siwe", StandardPath, {}, {TRUE}),
     Target("siwe-rs", StandardPath, {<<"backend">>}, {FALSE}),
     Target("siwe-go", CustomPath, {}, {})}

CheckerLists == UNION {[1..n -> CheckerTargetChoices] : n \in 0..MaxRepos}

(***************************************************************************)
(* Specifications, one per tool.                                           *)
(***************************************************************************)

\* validateConfig as a function of the file it is given
InitValidate ==
    /\ vInput \in ConfigFiles
    /\ vResult = <<>>
    /\ setup = "ok"
    /\ CentralIdle /\ CheckOneIdle /\ ValidatorIdle /\ PropagatorIdle /\ CheckerIdle

NextValidate == ValidateConfig

SpecValidate == InitValidate /\ [][NextValidate]_vars

\* getCentralVersion as a function of the answers it gets
InitCentral ==
    /\ gcvInput \in CentralInputs
    /\ gcvResult = <<>>
    /\ setup = "ok"
    /\ ValidateIdle /\ CheckOneIdle /\ ValidatorIdle /\ PropagatorIdle /\ CheckerIdle

NextCentral == CallGetCentralVersion

SpecCentral == InitCentral /\ [][NextCentral]_vars

\* checkRepositoryVersion as a function of the answers it gets
InitCheckOne ==
    /\ \E repo \in {t \in CheckerTargetChoices : FALSE \notin t.enabled} :
         coInput \in [repo : {repo}, install : CheckerInstallOutcomes,
                      file : FileOutcomes(repo), pulls : PullsOutcomes]
    /\ coResult = <<>>
    /\ setup = "ok"
    /\ ValidateIdle /\ CentralIdle /\ ValidatorIdle /\ PropagatorIdle /\ CheckerIdle

NextCheckOne == CallCheckRepositoryVersion

SpecCheckOne == InitCheckOne /\ [][NextCheckOne]_vars

\* A run of the validator
InitValidatorRun ==
    /\ ValidateIdle /\ CentralIdle /\ CheckOneIdle /\ PropagatorIdle /\ CheckerIdle
    /\ vpc = "main"
    /\ setup \in ValidatorSetups
    /\ configPaths \in PathLists
    /\ configFiles = <<>> /\ results = <<>>
    /\ validFiles = 0 /\ invalidFiles = 0
    /\ vReport = <<>> /\ vWritten = FALSE /\ vExit = -1

NextValidatorRun ==
    \/ LoadSchema
    \/ FindConfigFiles
    \/ ValidateNextFile
    \/ BuildReport
    \/ WriteReport
    \/ ExitValidator

SpecValidatorRun == InitValidatorRun /\ [][NextValidatorRun]_vars

\* A run of the propagator
InitPropagator ==
    /\ ValidateIdle /\ CentralIdle /\ CheckOneIdle /\ ValidatorIdle /\ CheckerIdle
    /\ ppc = "main"
    /\ setup \in ListSetups
    /\ pConfig \in [repositories : TargetLists,
                    workflowVersion : WorkflowVersions,
                    dryRun : BOOLEAN]
    /\ pIdx = 0 /\ remote = NoRemote /\ pLocal = LocalInit /\ writes = <<>>
    /\ answers = <<>>
    /\ pResults = [success |-> 0, skipped |-> 0, failed |-> 0]
    /\ tallied = "none" /\ pExit = -1

NextPropagator ==
    \/ PropagatorMain
    \/ RunLoop
    \/ NeedsUpdateInstall
    \/ NeedsUpdateGetContent
    \/ UpdateInstall
    \/ ReposGet
    \/ GetBranch
    \/ CreateRef
    \/ UpdateRef
    \/ UpdateFileGet
    \/ UpdateFilePut
    \/ PullsCreate
    \/ AddLabels
    \/ PropagatorSummary

SpecPropagator == InitPropagator /\ [][NextPropagator]_vars

\* A run of the version checker
InitChecker ==
    /\ ValidateIdle /\ CentralIdle /\ CheckOneIdle /\ ValidatorIdle /\ PropagatorIdle
    /\ cpc = "main"
    /\ setup \in ListSetups
    /\ cList \in CheckerLists
    /\ cRepositories = <<>> /\ centralVersion = {}
    /\ cInfos = <<>> /\ cChecked = <<>> /\ cReport = <<>> /\ cExit = -1

NextChecker ==
    \/ CheckerMain
    \/ GetCentralVersion
    \/ CheckRepositoryVersion
    \/ BuildVersionReport
    \/ ExitChecker

SpecChecker == InitChecker /\ [][NextChecker]_vars

\* The two tools that loop over a repository list, each started on its own
SpecLoops ==
    (InitPropagator \/ InitChecker) /\ [][NextPropagator \/ NextChecker]_vars

\* The three tools, each started on its own
SpecTools ==
    (InitValidatorRun \/ InitPropagator \/ InitChecker)
        /\ [][NextValidatorRun \/ NextPropagator \/ NextChecker]_vars

\* The two tools that write a report, each started on its own
SpecReports ==
    (InitValidatorRun \/ InitChecker) /\ [][NextValidatorRun \/ NextChecker]_vars

(***************************************************************************)
(* Properties of the validator's per-file result.                          *)
(***************************************************************************)
ContradictionMsg ==
    Msg("Inconsistent configuration: test coverage specified but test checking disabled", <<>>)

\* The documents whose review_rules switch test checking off and still ask
\* for a positive coverage
Contradictory(file) ==
    /\ file.exists /\ file.parses /\ file.config.kind = "object"
    /\ FALSE \in file.config.check_tests
    /\ \E c \in file.config.min_test_coverage : c > 0

\* C1: a validation result has valid = true if and only if its errors
\* list is empty.
C1_ValidIffNoErrors ==
    vResult # <<>> => (vResult[1].valid <=> vResult[1].errors = <<>>)

\* C2: a document with check_tests = false and min_test_coverage > 0 gets
\* exactly one contradiction error and valid = false, whether or not the
\* schema accepts it.
C2_ContradictionIsInvalid ==
    (vResult # <<>> /\ Contradictory(vInput)) =>
        /\ Count(vResult[1].errors, ContradictionMsg) = 1
        /\ vResult[1].valid = FALSE

(***************************************************************************)
(* Properties of the version checker.                                      *)
(***************************************************************************)
\* C3: every repository entry whose status is error or missing has a null
\* currentVersion, whatever the remote calls answered.
C3_NoVersionWhenErrorOrMissing ==
    \A i \in 1..Len(cInfos) :
        cInfos[i].status \in {"error", "missing"} => cInfos[i].currentVersion = {}

\* sha.substring(0, 7)
ShortSha(sha) ==
    SubSeq(sha, 1, IF Len(sha) < ShortShaLen THEN Len(sha) ELSE ShortShaLen)

\* C4 as stated: getCentralVersion never raises; it returns the release tag
\* with one leading "v" stripped, else the short id of the latest commit,
\* else "unknown", for every combination of answers.
C4_NeverRaises ==
    gcvResult # <<>> =>
        /\ ~gcvResult[1].threw
        /\ \/ gcvResult[1].value = StripLeadingV(gcvInput.release.tag_name)
           \/ gcvResult[1].value = Unknown
           \/ /\ gcvInput.commits.shas # <<>>
              /\ gcvResult[1].value = ShortSha(gcvInput.commits.shas[1])

\* C4, amended: getCentralVersion raises exactly when its first installation
\* lookup fails or the release lookup fails with a status other than 404.
\* Otherwise it returns the release tag with one leading "v" stripped when
\* the release lookup succeeds, and after a 404 the first seven characters of
\* the latest commit id when the second installation lookup and the commit
\* lookup succeed and find a commit, "unknown" when they do not.
C4_RaisesOnlyOutsideTheFallback ==
    gcvResult # <<>> =>
        LET in == gcvInput
            out == gcvResult[1]
            fallsBack == in.install1 = "ok" /\ in.release.status = "404"
            hasCommit == /\ in.install2 = "ok" /\ in.commits.status = "ok"
                         /\ in.commits.shas # <<>> /\ in.commits.shas[1] # <<>>
        IN  /\ out.threw <=> ~(in.install1 = "ok" /\ in.release.status \in {"ok", "404"})
            /\ (in.install1 = "ok" /\ in.release.status = "ok") =>
                   out.value = StripLeadingV(in.release.tag_name)
            /\ (fallsBack /\ hasCommit) =>
                   /\ out.value = ShortSha(in.commits.shas[1])
                   /\ Len(out.value) <= ShortShaLen
            /\ (fallsBack /\ ~hasCommit) => out.value = Unknown

\* C4 witness: a release lookup answered 404 and a failed commit lookup gave
\* "unknown" without raising.
C4_FallbackReturnedUnknown ==
    /\ gcvResult # <<>>
    /\ gcvInput.install1 = "ok" /\ gcvInput.release.status = "404"
    /\ gcvInput.commits.status = "500"
    /\ gcvResult[1] = Returned(Unknown)

(***************************************************************************)
(* Properties of the update propagator.                                    *)
(***************************************************************************)
IsDisabled(repo) == FALSE \in repo.enabled

\* The number of targets among the first n with enabled = false
DisabledAmong(n) ==
    Cardinality({i \in 1..n : IsDisabled(pConfig.repositories[i])})

\* C5: a target with enabled = false gets no remote write; it is tallied as
\* skipped and never as failed.
C5_DisabledIsSkipped ==
    /\ (pIdx >= 1 /\ IsDisabled(CurrentRepo)) =>
           /\ writes = <<>>
           /\ tallied = "skipped"
           /\ ppc \in {"loop", "done"}
    /\ ppc \in {"loop", "done"} =>
           /\ pResults.skipped >= DisabledAmong(pIdx)
           /\ pResults.success + pResults.failed
                 <= pIdx - DisabledAmong(pIdx)

\* C5 witness: a run that has passed a disabled target behind an enabled one
\* that failed.
C5_DisabledAfterFailure ==
    /\ pIdx = 2 /\ IsDisabled(CurrentRepo)
    /\ pResults.failed = 1 /\ pResults.skipped = 1

\* What the target's default branch holds at its workflowPath is a file with
\* the exact version marker
MarkerPresent ==
    \E e \in remote.main[CurrentRepo.workflowPath] :
        e.kind = "file" /\ Includes(e.text, VersionMarker(pConfig.workflowVersion))

\* C6: a target is current (needsUpdate answered false) exactly when the
\* workflow file exists and contains the exact version marker; an absent
\* file or marker means an update is needed; a current target gets no
\* branch, no file write and no pull request.
C6_CurrentIffMarkerPresent ==
    (pIdx >= 1 /\ pLocal.needs # {}) =>
        /\ FALSE \in pLocal.needs <=> MarkerPresent
        /\ TRUE \in pLocal.needs <=> ~MarkerPresent
        /\ FALSE \in pLocal.needs => writes = <<>>

\* C6 witness: a target whose file carries the marker was found current and
\* tallied as skipped.
C6_CurrentTargetSkipped ==
    /\ pIdx >= 1 /\ pLocal.needs = {FALSE}
    /\ MarkerPresent /\ tallied = "skipped" /\ writes = <<>>

\* C7: in a dry run no call that changes a remote repository is made.
C7_DryRunWritesNothing ==
    (pConfig # <<>> /\ pConfig.dryRun) =>
        /\ writes = <<>>
        /\ ppc \in {"main", "loop", "nu_install", "nu_get", "done"}

\* C7 witness: a dry run met a target that needs the update and went on to
\* tally it.
C7_DryRunMetStaleTarget ==
    /\ pConfig # <<>> /\ pConfig.dryRun
    /\ pLocal.needs = {TRUE} /\ tallied = "success" /\ writes = <<>>

(***************************************************************************)
(* Properties of the version checker's comparison pass and of the reports. *)
(***************************************************************************)
\* C8: updateVersionStatus leaves entries in error or missing alone; every
\* other entry becomes up-to-date exactly when its token is the central
\* version V, "v" followed by V, or "main", and outdated otherwise.
C8_ComparisonPass ==
    cReport # <<>> =>
        /\ Len(cInfos) = Len(cChecked)
        /\ \A i \in 1..Len(cChecked) :
             LET before == cChecked[i]
                 after == cInfos[i]
                 V == CHOOSE v \in centralVersion : TRUE
                 matches == \E token \in before.currentVersion :
                               \/ token = V
                               \/ token = <<"v">> \o V
                               \/ token = <<"m", "a", "i", "n">>
             IN  IF before.status \in {"error", "missing"}
                 THEN after = before
                 ELSE /\ after.status = (IF matches THEN "up-to-date" ELSE "outdated")
                      /\ after = [before EXCEPT !.status = after.status]

\* C8 witness: one report holds an entry made up-to-date by the `main`
\* token and an entry made outdated.
C8_MainAndOutdated ==
    /\ cReport # <<>> /\ Len(cInfos) = 2
    /\ cChecked[1].currentVersion = {<<"m", "a", "i", "n">>}
    /\ cInfos[1].status = "up-to-date"
    /\ cChecked[2].status = "up-to-date" /\ cInfos[2].status = "outdated"

\* C9: in a Validation Report validFiles + invalidFiles = totalFiles = the
\* number of results; in a Version Report upToDate + outdated + missing +
\* errors = totalRepositories = the number of repository entries.
C9_ReportTotals ==
    /\ \A i \in 1..Len(vReport) :
         /\ vReport[i].validFiles + vReport[i].invalidFiles = vReport[i].totalFiles
         /\ vReport[i].totalFiles = Len(vReport[i].results)
    /\ \A i \in 1..Len(cReport) :
         /\ cReport[i].upToDate + cReport[i].outdated
               + cReport[i].missing + cReport[i].errors
            = cReport[i].totalRepositories
         /\ cReport[i].totalRepositories = Len(cReport[i].repositories)

\* C9 witness: a Version Report of two repositories, one missing with its
\* message and one outdated.
C9_MissingAndOutdated ==
    /\ cReport # <<>>
    /\ cReport[1].totalRepositories = 2
    /\ cReport[1].missing = 1 /\ cReport[1].outdated = 1

\* The number of results of rs whose errors (or warnings) contain message m
Containing(rs, m, errorsNotWarnings) ==
    Cardinality({i \in 1..Len(rs) :
        m \in Range(IF errorsNotWarnings THEN rs[i].errors ELSE rs[i].warnings)})

\* C10: summary.commonErrors[m] (commonWarnings[m]) is the number of results
\* whose errors (warnings) contain the message m, also when one result
\* contains m more than once.
C10_CountsResultsNotOccurrences ==
    \A i \in 1..Len(vReport) :
        LET report == vReport[i]
        IN  /\ \A m \in DOMAIN report.summary.commonErrors :
                 report.summary.commonErrors[m] = Containing(report.results, m, TRUE)
            /\ \A m \in DOMAIN report.summary.commonWarnings :
                 report.summary.commonWarnings[m] = Containing(report.results, m, FALSE)

(***************************************************************************)
(* Properties of the validator process.                                    *)
(***************************************************************************)
\* C11: when a validated document has an error recorded in its result (a
\* parse failure, a schema violation or a semantic contradiction) the
\* validator writes the report and exits non-zero; it exits 0 only when no
\* result carries an error.
C11_ErrorsMeanFailure ==
    (vpc = "exited" /\ vReport # <<>>) =>
        LET anyError == \E i \in 1..Len(results) : results[i].errors # <<>>
        IN  /\ anyError => (vWritten /\ vExit # 0)
            /\ vExit = 0 => ~anyError

(***************************************************************************)
(* Properties of the two loops over the repository list.                   *)
(***************************************************************************)
Tallies == pResults.success + pResults.skipped + pResults.failed

\* loadRepositories keeps the entries whose enabled flag is not false
EnabledTargets == SelectSeq(cList, LAMBDA r : FALSE \notin r.enabled)

\* C12: a failure on one target never aborts the propagator's loop: the
\* targets are taken one at a time in list order, each is tallied once, and
\* the run ends only after the last one; the version checker holds one
\* result per enabled target, in list order, whatever the remote answered.
C12_NoTargetAbortsTheLoop ==
    /\ ppc # "idle" =>
         /\ pIdx <= Len(pConfig.repositories)
         /\ ppc = "loop" => Tallies = pIdx
         /\ ppc \notin {"main", "loop", "done"} => Tallies = pIdx - 1
         /\ (ppc = "done" /\ pIdx > 0) =>
                pIdx = Len(pConfig.repositories) /\ Tallies = pIdx
    /\ cpc \in {"check", "exit"} \/ cReport # <<>> =>
         /\ Len(cInfos) <= Len(EnabledTargets)
         /\ \A i \in 1..Len(cInfos) : cInfos[i].name = EnabledTargets[i].name
         /\ cReport # <<>> => Len(cInfos) = Len(EnabledTargets)

\* C12 witness: a run of two targets ended after the first one failed and
\* the second one was tallied as a success.
C12_SecondProcessedAfterFailure ==
    /\ ppc = "done" /\ pIdx = 2
    /\ pResults.failed = 1 /\ pResults.success = 1 /\ tallied = "success"

\* C13: at the end of a propagator run succeeded + skipped + failed is the
\* number of targets, and the process exits non-zero if and only if failed
\* is at least 1.
C13_TallyAndExit ==
    (ppc = "done" /\ (pIdx > 0 \/ pExit = 0)) =>
        /\ Tallies = Len(pConfig.repositories)
        /\ pExit \in {0, 1}
        /\ pExit # 0 <=> pResults.failed >= 1

\* C13 witness: a run ended with one target failed and one skipped, exit 1.
C13_FailedAndSkipped ==
    /\ ppc = "done" /\ pExit = 1
    /\ pResults.failed = 1 /\ pResults.skipped = 1

(***************************************************************************)
(* Properties of the validator's warnings and semantic checks.             *)
(***************************************************************************)
\* The file exists, parses and holds an object
Readable(file) == file.exists /\ file.parses /\ file.config.kind = "object"

\* The messages of list ms whose fixed text is t
WithText(ms, t) == SelectSeq(ms, LAMBDA m : m.text = t)

\* The names of the security_rules flags that are explicitly false
FalseFlags(config) ==
    UNION {{rules[i][1] : i \in {k \in 1..Len(rules) : rules[k][2] = FALSE}} :
             rules \in config.security_rules}

\* C14: a schema-valid document gets exactly one 'Disabled security checks'
\* warning when at least one security_rules flag is explicitly false, naming
\* exactly the flags set to false; it gets none when no flag is false; and
\* its valid flag stays true.
C14_DisabledSecurityChecks ==
    (vResult # <<>> /\ Readable(vInput) /\ vInput.schemaErrors = <<>>) =>
        LET found == WithText(vResult[1].warnings, "Disabled security checks: ")
            off == FalseFlags(vInput.config)
        IN  /\ vResult[1].valid = TRUE
            /\ WithText(vResult[1].errors, "Disabled security checks: ") = <<>>
            /\ off = {} => found = <<>>
            /\ off # {} =>
                 /\ Len(found) = 1
                 /\ Len(found[1].args) = Cardinality(off)
                 /\ Range(found[1].args) = {<<n>> : n \in off}

\* C14 witness: a schema-valid document with one flag false and one true got
\* one warning naming the false one.
C14_OneOfTwoDisabled ==
    /\ vResult # <<>> /\ Readable(vInput) /\ vInput.schemaErrors = <<>>
    /\ vInput.config.security_rules =
         {<<<<"check_sql_injection", FALSE>>, <<"check_xss", TRUE>>>>}
    /\ WithText(vResult[1].warnings, "Disabled security checks: ")
         = <<Msg("Disabled security checks: ", <<<<"check_sql_injection">>>>)>>

RedundancyText ==
    "Potential redundant exclusion: file pattern may be covered by directory pattern"

\* A directory pattern with its path separator stripped: every "/" removed,
\* or the "/" at its end removed
Stripped(d, every) ==
    IF every THEN SelectSeq(d, LAMBDA c : c # "/")
    ELSE IF d # <<>> /\ d[Len(d)] = "/" THEN SubSeq(d, 1, Len(d) - 1)
    ELSE d

\* The redundancy findings as stated, under one reading of "stripped"
RedundancyAsStated(every) ==
    \A fps \in vInput.config.file_patterns, dps \in vInput.config.directory_patterns :
        /\ Len(WithText(vResult[1].warnings, RedundancyText))
             = Cardinality({p \in (1..Len(fps)) \X (1..Len(dps)) :
                              Includes(fps[p[1]], Stripped(dps[p[2]], every))})
        /\ \A i \in 1..Len(fps), j \in 1..Len(dps) :
             Msg(RedundancyText, <<fps[i], dps[j]>>) \in Range(vResult[1].warnings)
               <=> Includes(fps[i], Stripped(dps[j], every))

\* C15: a document with both pattern lists gets one redundancy warning for
\* every (file pattern, directory pattern) pair in which the file pattern
\* contains the directory pattern with its path separator stripped, and
\* none for any other pair; the findings go to warnings, never to errors.
\* "Stripped" is read either as every separator or as the closing one.
C15_RedundancyPerPair ==
    (vResult # <<>> /\ Readable(vInput)) =>
        /\ WithText(vResult[1].errors, RedundancyText) = <<>>
        /\ \/ RedundancyAsStated(TRUE)
           \/ RedundancyAsStated(FALSE)

\* u begins with the prefix p
HasPrefix(u, p) == Len(u) >= Len(p) /\ \A i \in 1..Len(p) : u[i] = p[i]

SlackError == Msg("Invalid Slack webhook URL format", <<>>)
DiscordError == Msg("Invalid Discord webhook URL format", <<>>)

Discovered(entry) ==
    CASE entry.kind = "file" -> <<entry.path>>
      [] entry.kind = "dir" ->
           LET kept == SelectSeq(entry.children, LAMBDA f : f[2] = ".json")
           IN  [i \in 1..Len(kept) |-> entry.path \o <<kept[i]>>]
      [] OTHER -> <<>>

\* C17: findConfigFiles returns every input path that is an existing file
\* unchanged and, for every input path that is an existing directory, its
\* immediate children whose names end in .json, in input order and nothing
\* else.
C17_DiscoveryAsStated ==
    vpc \in {"validate", "write", "exit"} =>
        configFiles = Concat([i \in 1..Len(configPaths) |-> Discovered(configPaths[i])])

\* The input paths that exist
ExistingPaths == SelectSeq(configPaths, LAMBDA e : e.kind # "missing")

\* C18 as stated: whatever the input paths, run does not raise when it looks
\* for the files: it goes on to validate them and returns a report.
C18_RunNeverRaises ==
    [][vpc = "find" => vpc' = "validate"]_vars

\* C18, amended: a nonexistent input path is skipped and by itself raises
\* nothing; run raises, and main exits 1 without a report, exactly when no
\* file at all is found; when at least one file is found the run goes on and
\* ends with a report.
C18_RaisesOnlyWhenNothingFound ==
    /\ [][vpc = "find" =>
            /\ configFiles' = Concat([i \in 1..Len(ExistingPaths) |->
                                         FilesOfPath(ExistingPaths[i])])
            /\ IF configFiles' = <<>>
               THEN vpc' = "exited" /\ vExit' = 1 /\ vReport' = <<>>
               ELSE vpc' = "validate"]_vars
    /\ [](vpc = "exited" /\ configFiles # <<>> => vReport # <<>>)

\* C18 witness: a run whose first path does not exist and whose second is a
\* .json file ended with a report of one file.
C18_ReportDespiteMissingPath ==
    /\ vpc = "exited" /\ Len(configPaths) = 2
    /\ configPaths[1].kind = "missing" /\ configPaths[2].kind = "file"
    /\ vReport # <<>> /\ vReport[1].totalFiles = 1

(***************************************************************************)
(* Properties of one repository check.                                     *)
(***************************************************************************)
\* The workflow file was fetched as a regular file
Fetched == coInput.install = "ok" /\ coInput.file.status = "ok"
              /\ coInput.file.entry.kind = "file"

\* The central versions a run may compare with
CentralChoices == {<<"1", ".", "2">>, <<"a", "b", "c", "d", "e", "f", "0">>, Unknown}

CouldNotExtract == <<"Could not extract version from workflow file">>
NotFoundMessage == <<"Workflow file not found or repository not accessible">>

\* C19: for a target whose fetched file lacks the reference pattern,
\* checkRepositoryVersion returns status error, a null currentVersion and
\* the message 'Could not extract version from workflow file', and the
\* comparison pass keeps that status.
C19_NoPatternGivesExtractError ==
    (coResult # <<>> /\ Fetched
       /\ extractVersionFromWorkflow(coInput.file.entry.text) = {}) =>
        /\ coResult[1].status = "error"
        /\ coResult[1].currentVersion = {}
        /\ coResult[1].errorMessage = {CouldNotExtract}
        /\ \A V \in CentralChoices :
             updateVersionStatus(coResult, V)[1].status = "error"

\* C20: status missing is returned exactly when the workflow file or the
\* repository is not found; a target whose file was fetched is never
\* missing; an installation failure is an error whose message is not the
\* not-found message.
C20_MissingOnlyWhenNotFound ==
    coResult # <<>> =>
        /\ coResult[1].status = "missing"
             <=> (coInput.install = "ok" /\ coInput.file.status = "404")
        /\ (coInput.install = "ok" /\ coInput.file.status = "ok") =>
               coResult[1].status # "missing"
        /\ coInput.install # "ok" =>
               /\ coResult[1].status = "error"
               /\ coResult[1].errorMessage # {NotFoundMessage}
               /\ coResult[1].errorMessage # {}

(***************************************************************************)
(* Properties of the propagator's remote calls.                            *)
(***************************************************************************)
\* The positions in `answers` of the calls named `call`
CallsOf(call) == {i \in 1..Len(answers) : answers[i].call = call}

\* createPullRequest met an existing change request, or could not attach
\* the labels
RequestExistedOrLabelsFailed ==
    \/ \E i \in CallsOf("pulls.create") : answers[i].status = "422"
    \/ \E i \in CallsOf("addLabels") : answers[i].status # "ok"

\* C21: a change-request creation rejected because the request exists, and
\* any failure of label attachment, never make the target fail: the target
\* is not tallied as failed.
C21_ExistingRequestNeverFails ==
    RequestExistedOrLabelsFailed => tallied # "failed"

\* The update branch was made to point at the default branch's commit by
\* the call at position j
BranchSetAt(j) ==
    /\ answers[j].call \in {"createRef", "updateRef"}
    /\ answers[j].status = "ok"

\* C22: the branch workflow-automation/update-v<version> is made to point at
\* the default branch's latest commit before any file is written; a
\* createRef rejected because the branch exists is followed by an updateRef
\* to the same commit, and the existing branch never fails the target: the
\* update is not rejected.
C22_BranchBeforeFiles ==
    /\ \A i \in CallsOf("updateRef") : answers[i].status # "422"
    /\ \A i \in CallsOf("createOrUpdateFileContents") : \E j \in 1..(i - 1) : BranchSetAt(j)
    /\ \A i \in 1..Len(writes) :
         writes[i].op \in {"createRef", "updateRef"} =>
             writes[i].path = <<"workflow-automation/update-", "v">> \o pConfig.workflowVersion
    /\ (ppc = "uf_get" /\ pLocal.fileNo = 1) =>
           /\ BranchSetAt(Len(answers))
           /\ remote.branch = {remote.main}
    /\ \A i \in CallsOf("createRef") :
         answers[i].status = "422" =>
             IF i = Len(answers)
             THEN ppc = "up_updateRef" /\ tallied = "none"
             ELSE answers[i + 1].call = "updateRef"

\* Both calls of updateFile of the target in progress succeeded
BothFilesWritten ==
    Cardinality({i \in CallsOf("createOrUpdateFileContents") : answers[i].status = "ok"}) = 2

\* C23: once both files were written, the update branch holds the primary
\* definition at the target's workflowPath and the on-demand definition at
\* a separate path, each with the target's profile and the desired version,
\* whatever the workflowPath.
C23_BothDocumentsOnBranch ==
    BothFilesWritten =>
        LET repo == CurrentRepo
            files == BranchFiles(remote)
            second == OnDemandPath(repo.workflowPath)
        IN  /\ second # repo.workflowPath
            /\ files[repo.workflowPath] =
                 {FileEntry(generateCallerWorkflow(repo, pConfig.workflowVersion))}
            /\ files[second] =
                 {FileEntry(generateOnDemandWorkflow(repo, pConfig.workflowVersion))}

WriteOrder == <<"createRef", "putFile", "putFile", "createPull", "addLabels">>
WriteOrderExisting ==
    <<"createRef", "updateRef", "putFile", "putFile", "createPull", "addLabels">>

IsPrefix(s, t) == Len(s) =< Len(t) /\ \A i \in 1..Len(s) : s[i] = t[i]

\* The remote calls whose rejection updateRepository survives
Survivable(a) ==
    \/ a.status = "ok"
    \/ a.call = "createRef" /\ a.status = "422"
    \/ a.call \in {"getContent", "getContent ref"} /\ a.status = "404"
    \/ a.call = "pulls.create" /\ a.status = "422"
    \/ a.call = "addLabels"

\* C25: for one target the remote writes occur in the order branch
\* create-or-update, primary definition, on-demand definition, change
\* request, labels; the change request is opened only after both file
\* writes succeeded; after a failed step no later step is issued.
C25_WritesInOrder ==
    LET ops == [i \in 1..Len(writes) |-> writes[i].op]
    IN  /\ IsPrefix(ops, WriteOrder) \/ IsPrefix(ops, WriteOrderExisting)
        /\ CallsOf("pulls.create") # {} => BothFilesWritten
        /\ \A i \in CallsOf("pulls.create"), j \in CallsOf("createOrUpdateFileContents") : j < i
        /\ \A i \in 1..Len(answers) : ~Survivable(answers[i]) => i = Len(answers)

\* C25 witness: all six writes were issued for a target whose branch existed
C25_AllWritesIssued ==
    Len(writes) = 6 /\ writes[6].op = "addLabels"

\* The file writes among `writes`, in order, and the write that was answered
\* at position i of `answers`
FileWrites == SelectSeq(writes, LAMBDA w : w.op = "putFile")
FileWriteAt(i) ==
    FileWrites[Cardinality({j \in CallsOf("createOrUpdateFileContents") : j =< i})]

\* The read that precedes the file write answered at position i
ReadBefore(i) ==
    /\ i > 1
    /\ answers[i - 1].call = "getContent ref"
    /\ answers[i - 1].path = answers[i].path
    /\ FileWriteAt(i).path = answers[i].path

\* The update branch holds a directory at the path of the call at position i
\* (a rejected write leaves it there)
DirectoryAt(i) == DirEntry \in BranchFiles(remote)[answers[i].path]

\* C26 as stated: every file write is preceded by a read of the same path on
\* the update branch; it carries the sha exactly when the read found the
\* path, is a plain creation exactly when the read reported not-found, and
\* is not issued when the read failed otherwise.
C26_ShaIffFound ==
    \A i \in CallsOf("createOrUpdateFileContents") :
        /\ ReadBefore(i)
        /\ answers[i - 1].status \in {"ok", "404"}
        /\ FileWriteAt(i).sha <=> answers[i - 1].status = "ok"
        /\ ~FileWriteAt(i).sha <=> answers[i - 1].status = "404"

\* C26 amended: every file write is preceded by a read of the same path on
\* the update branch that was answered ok or not-found; it carries the sha
\* exactly when the read returned a file, and is a plain creation when the
\* read reported not-found or returned a directory listing, which has no sha.
C26_ShaIffFileRead ==
    \A i \in CallsOf("createOrUpdateFileContents") :
        /\ ReadBefore(i)
        /\ answers[i - 1].status \in {"ok", "404"}
        /\ FileWriteAt(i).sha <=> (answers[i - 1].status = "ok" /\ ~DirectoryAt(i))
        /\ ~FileWriteAt(i).sha <=> (answers[i - 1].status = "404" \/ DirectoryAt(i))

\* C26 witness: a write without sha was issued after a read that found a
\* directory
C26_DirectoryReadThenBlindWrite ==
    \E i \in CallsOf("createOrUpdateFileContents") :
        answers[i - 1].status = "ok" /\ DirectoryAt(i) /\ ~FileWriteAt(i).sha

\* updateRepository returned to run without raising: the target was found
\* current, the run is a dry run, or createPullRequest returned
PropagateReturned ==
    /\ pLocal.needs # {}
    /\ \/ FALSE \in pLocal.needs
       \/ pConfig.dryRun
       \/ RequestExistedOrLabelsFailed
       \/ CallsOf("addLabels") # {}

\* C27: a target is tallied as succeeded only if its update branch was
\* created or updated, both files were written and a change request was
\* opened or found to exist; a target handled in a dry run or found current
\* is tallied as skipped; a target whose propagate step returned without
\* error is never tallied as failed.
C27_TallyFollowsTheWork ==
    /\ tallied = "success" =>
           /\ \E j \in 1..Len(answers) : BranchSetAt(j)
           /\ BothFilesWritten
           /\ \E i \in CallsOf("pulls.create") : answers[i].status \in {"ok", "422"}
    /\ (tallied # "none" /\ pLocal.needs # {}
          /\ (pConfig.dryRun \/ FALSE \in pLocal.needs)) => tallied = "skipped"
    /\ PropagateReturned => tallied # "failed"

\* The target in progress was tallied in a non-dry run that found the
\* change request of an earlier run open (addLabels follows every change
\* request this run opens)
SecondRunTallied ==
    /\ pIdx >= 1 /\ tallied # "none" /\ ~pConfig.dryRun
    /\ IsEnabled(CurrentRepo)
    /\ remote.pr /\ CallsOf("addLabels") = {}

\* C28: run against what a first successful run left (update branch, two
\* files and open change request; default branch unchanged), the
\* propagator does not fail the target, opens no second change request and
\* leaves the two files on the update branch as they were.
C28_SecondRunIsIdempotent ==
    SecondRunTallied =>
        /\ tallied # "failed"
        /\ \A i \in CallsOf("pulls.create") : answers[i].status # "ok"
        /\ remote.branch = {GeneratedFiles(CurrentRepo, pConfig.workflowVersion)}

(***************************************************************************)
(* The propagator and the version checker compared.                        *)
(***************************************************************************)
\* C29: for every fetched file content and every version V, the
\* propagator finds the file current for the desired version V exactly when
\* the checker, with central version V, extracts a token from the content
\* and finalizes the target as up-to-date.
C29_ToolsAgreeOnCurrency ==
    (coResult # <<>> /\ Fetched /\ coInput.pulls.status = "ok") =>
        \A V \in CentralChoices :
            ~needsUpdateOf(coInput.file.entry, V)
                <=> /\ coResult[1].currentVersion # {}
                    /\ updateVersionStatus(coResult, V)[1].status = "up-to-date"

\* C30: for every entry of the repository list, with `enabled` true, false
\* or absent, the version checker keeps the entry exactly when the
\* propagator does not skip it as disabled.
C30_ToolsAgreeOnEnabled ==
    (cpc \notin {"idle", "main"} /\ setup = "ok") =>
        \A i \in 1..Len(cList) :
            (cList[i] \in Range(cRepositories)) <=> IsEnabled(cList[i])

====
